---- MODULE Spec2Model ----
(***************************************************************************)
(* Model of the reset-program launchpad auction (programs/reset-program):  *)
(* the fixed-point allocation functions of allocation.rs, the extension    *)
(* gates of extensions.rs, the emergency mask of state.rs and the          *)
(* instruction handlers of instructions.rs, for one auction, two users and *)
(* the two token vaults.                                                   *)
(*                                                                         *)
(* Numbers are u64 in the program.  Every value of the model stays below   *)
(* 2^31, so a product of two of them stays below 2^62 and a sum below      *)
(* 2^32: within the model's range checked_mul / checked_add never return   *)
(* None, and the MathOverflow branches of the handlers are unreachable.    *)
(* checked_sub and checked_div keep their failure branches.                *)
(***************************************************************************)
EXTENDS Integers, Sequences, FiniteSets, TLC

(***************************************************************************)
(* Bounds of the model                                                     *)
(***************************************************************************)
\* the clock runs over 0..MaxTime
MaxTime == 2
\* a commit is only taken while it leaves the sum of the bins' payment_token_raised
\* <= MaxRaised
MaxRaised == 4
\* a commit is only taken while the ledger's nonce is below MaxNonce
MaxNonce == 2
\* a Committed account is only created while total_participants < MaxParticipants
MaxParticipants == 2
\* the inputs of the pure allocation functions range over 0..MaxCalc
MaxCalc == 6
\* accepted signatures the history variable consumed remembers: which ones is a free
\* choice at each accepting commit, so every signature is remembered on some behaviour
MaxWatched == 1

(***************************************************************************)
(* Program constants                                                       *)
(***************************************************************************)
PRECISION_FACTOR == 1000000000
PAUSE_AUCTION_COMMIT == 1
PAUSE_AUCTION_CLAIM == 2
PAUSE_AUCTION_WITHDRAW_FEES == 4
PAUSE_AUCTION_WITHDRAW_FUNDS == 8
\* used by set_price and emergency_control; its declaration is not part of state.rs
PAUSE_AUCTION_UPDATION == 16
\* denominator of the claim fee rate (basis points)
FEE_DENOMINATOR == 10000

(***************************************************************************)
(* Principals and option values                                            *)
(***************************************************************************)
LAUNCHPAD_ADMIN == "admin"
Users == {"u1", "u2"}
WhitelistKey == "wl"
NoKey == "none"

None == <<>>
Some(x) == <<x>>
IsSome(o) == Len(o) = 1
Unwrap(o) == o[1]

Min(a, b) == IF a <= b THEN a ELSE b

(***************************************************************************)
(* u64 arithmetic                                                          *)
(***************************************************************************)
\* <<q, r>> with a * b = q * d + r and 0 <= r < d, for 0 <= b < d, by
\* double-and-add so that no intermediate exceeds 2 * d
RECURSIVE MulDivMod(_, _, _)
MulDivMod(a, b, d) ==
    IF a = 0 THEN <<0, 0>>
    ELSE LET h  == MulDivMod(a \div 2, b, d)
             r2 == 2 * h[2]
             q1 == 2 * h[1] + (IF r2 >= d THEN 1 ELSE 0)
             r1 == IF r2 >= d THEN r2 - d ELSE r2
             r3 == IF a % 2 = 1 THEN r1 + b ELSE r1
         IN  <<q1 + (IF r3 >= d THEN 1 ELSE 0), IF r3 >= d THEN r3 - d ELSE r3>>

\* a.checked_mul(b)?.checked_div(d)? for d > 0: floor(a * b / d)
MulDiv(a, b, d) == a * (b \div d) + MulDivMod(a, b % d, d)[1]

(***************************************************************************)
(* allocation.rs                                                           *)
(***************************************************************************)
\* calculate with the division upside down: raised over target
calculate_inverted(target_amount, raised_amount) ==
    IF raised_amount = 0 THEN [err |-> "DivisionByZero", ratio |-> 0]
    ELSE IF raised_amount > target_amount
         THEN IF target_amount = 0 THEN [err |-> "DivisionByZero", ratio |-> 0]
              ELSE [err |-> "Ok",
                    ratio |-> MulDiv(raised_amount, PRECISION_FACTOR, target_amount)]
         ELSE [err |-> "Ok", ratio |-> PRECISION_FACTOR]

\* AllocationRatio::calculate
calculate(target_amount, raised_amount) ==
    IF raised_amount = 0 THEN [err |-> "DivisionByZero", ratio |-> 0]
    ELSE IF raised_amount > target_amount
         THEN [err |-> "Ok", ratio |-> MulDiv(target_amount, PRECISION_FACTOR, raised_amount)]
         ELSE [err |-> "Ok", ratio |-> PRECISION_FACTOR]

\* apply_to_commitment with the refund scaled by the complement of the ratio
\* instead of subtracted: both parts truncate
apply_to_commitment_scaled(ratio, payment_token_committed) ==
    [err |-> "Ok",
     allocated |-> MulDiv(payment_token_committed, ratio, PRECISION_FACTOR),
     refund |-> MulDiv(payment_token_committed, PRECISION_FACTOR - ratio, PRECISION_FACTOR)]

\* AllocationRatio::apply_to_commitment
apply_to_commitment(ratio, payment_token_committed) ==
    LET allocated == MulDiv(payment_token_committed, ratio, PRECISION_FACTOR)
    IN  IF allocated > payment_token_committed
        THEN [err |-> "MathUnderflow", allocated |-> 0, refund |-> 0]
        ELSE [err |-> "Ok", allocated |-> allocated,
              refund |-> payment_token_committed - allocated]

NoAmounts(e) ==
    [err |-> e, sale_tokens |-> 0, refund_payment_tokens |-> 0,
     effective_payment_tokens |-> 0, allocation_ratio |-> 0]

calculate_claimable_amounts(user_committed, bin_target, bin_raised, sale_token_price) ==
    LET r == calculate(bin_target, bin_raised)
    IN  IF r.err # "Ok" THEN NoAmounts(r.err)
        ELSE LET a == apply_to_commitment(r.ratio, user_committed)
             IN  IF a.err # "Ok" THEN NoAmounts(a.err)
                 ELSE IF sale_token_price = 0 THEN NoAmounts("DivisionByZero")
                 ELSE [err |-> "Ok",
                       sale_tokens |-> a.allocated \div sale_token_price,
                       refund_payment_tokens |-> a.refund,
                       effective_payment_tokens |-> a.allocated,
                       allocation_ratio |-> r.ratio]

\* ClaimableAmounts::validate
validate(amounts, original_commitment) ==
    IF amounts.effective_payment_tokens + amounts.refund_payment_tokens # original_commitment
    THEN "InvalidCalculation"
    ELSE "Ok"

\* bin withdraw amounts that take the demand for sold, without the cap
calculate_bin_withdraw_amounts_uncapped(bin_payment_raised, bin_sale_token_cap, bin_sale_token_price) ==
    IF bin_sale_token_price = 0
    THEN [err |-> "DivisionByZero", payment_tokens_to_withdraw |-> 0,
          unsold_sale_tokens |-> 0, sale_tokens_sold |-> 0]
    ELSE LET sale_tokens_sold == bin_payment_raised \div bin_sale_token_price
         IN  IF bin_sale_token_cap < sale_tokens_sold
             THEN [err |-> "MathUnderflow", payment_tokens_to_withdraw |-> 0,
                   unsold_sale_tokens |-> 0, sale_tokens_sold |-> 0]
             ELSE [err |-> "Ok",
                   payment_tokens_to_withdraw |-> sale_tokens_sold * bin_sale_token_price,
                   unsold_sale_tokens |-> bin_sale_token_cap - sale_tokens_sold,
                   sale_tokens_sold |-> sale_tokens_sold]

calculate_bin_withdraw_amounts(bin_payment_raised, bin_sale_token_cap, bin_sale_token_price) ==
    IF bin_sale_token_price = 0
    THEN [err |-> "DivisionByZero", payment_tokens_to_withdraw |-> 0,
          unsold_sale_tokens |-> 0, sale_tokens_sold |-> 0]
    ELSE LET total_sale_tokens_demanded == bin_payment_raised \div bin_sale_token_price
             sale_tokens_sold == Min(total_sale_tokens_demanded, bin_sale_token_cap)
         IN  [err |-> "Ok",
              payment_tokens_to_withdraw |-> sale_tokens_sold * bin_sale_token_price,
              unsold_sale_tokens |-> bin_sale_token_cap - sale_tokens_sold,
              sale_tokens_sold |-> sale_tokens_sold]

RECURSIVE calculate_total_withdraw_amounts(_)
calculate_total_withdraw_amounts(bins) ==
    IF bins = <<>>
    THEN [err |-> "Ok", total_payment_tokens |-> 0, total_unsold_sale_tokens |-> 0]
    ELSE LET n    == Len(bins)
             rest == calculate_total_withdraw_amounts(SubSeq(bins, 1, n - 1))
             b    == calculate_bin_withdraw_amounts(bins[n].payment_token_raised,
                                                    bins[n].sale_token_cap,
                                                    bins[n].sale_token_price)
         IN  IF rest.err # "Ok" THEN rest
             ELSE IF b.err # "Ok"
             THEN [err |-> b.err, total_payment_tokens |-> 0, total_unsold_sale_tokens |-> 0]
             ELSE [err |-> "Ok",
                   total_payment_tokens |-> rest.total_payment_tokens + b.payment_tokens_to_withdraw,
                   total_unsold_sale_tokens |-> rest.total_unsold_sale_tokens + b.unsold_sale_tokens]

\* the entitlement of one CommittedBin under the auction bins, as claim and
\* check_all_bins_fully_claimed compute it (bin_target = cap * price)
EntitlementOf(committed_bin, auction_bins) ==
    LET bin == auction_bins[committed_bin.bin_id + 1]
    IN  calculate_claimable_amounts(committed_bin.payment_token_committed,
                                    bin.sale_token_cap * bin.sale_token_price,
                                    bin.payment_token_raised,
                                    bin.sale_token_price)

\* a loop that looks at the first entry only
check_all_bins_fully_claimed_first(committed_bins, auction_bins) ==
    IF committed_bins = <<>> THEN [err |-> "Ok", value |-> TRUE]
    ELSE LET cb == Head(committed_bins)
         IN  IF cb.bin_id >= Len(auction_bins) THEN [err |-> "InvalidBinId", value |-> FALSE]
             ELSE LET c == EntitlementOf(cb, auction_bins)
                  IN  IF c.err # "Ok" THEN [err |-> c.err, value |-> FALSE]
                      ELSE [err |-> "Ok",
                            value |-> /\ cb.sale_token_claimed >= c.sale_tokens
                                      /\ cb.payment_token_refunded >= c.refund_payment_tokens]

\* [err, value]: the loop returns at the first entry that fails or is not fully claimed
RECURSIVE check_all_bins_fully_claimed(_, _)
check_all_bins_fully_claimed(committed_bins, auction_bins) ==
    IF committed_bins = <<>> THEN [err |-> "Ok", value |-> TRUE]
    ELSE LET cb == Head(committed_bins)
         IN  IF cb.bin_id >= Len(auction_bins) THEN [err |-> "InvalidBinId", value |-> FALSE]
             ELSE LET c == EntitlementOf(cb, auction_bins)
                  IN  IF c.err # "Ok" THEN [err |-> c.err, value |-> FALSE]
                      ELSE IF ~(cb.sale_token_claimed >= c.sale_tokens
                                /\ cb.payment_token_refunded >= c.refund_payment_tokens)
                      THEN [err |-> "Ok", value |-> FALSE]
                      ELSE check_all_bins_fully_claimed(Tail(committed_bins), auction_bins)

\* withdrawable fees that forget what has been withdrawn
calculate_withdrawable_fees_total(total_fees_collected, total_fees_withdrawn) ==
    [err |-> "Ok", value |-> total_fees_collected]

calculate_withdrawable_fees(total_fees_collected, total_fees_withdrawn) ==
    IF total_fees_withdrawn > total_fees_collected
    THEN [err |-> "MathUnderflow", value |-> 0]
    ELSE [err |-> "Ok", value |-> total_fees_collected - total_fees_withdrawn]

(***************************************************************************)
(* state.rs                                                                *)
(***************************************************************************)
\* a & b on u64 masks
RECURSIVE BitAnd(_, _)
BitAnd(a, b) ==
    IF a = 0 \/ b = 0 THEN 0
    ELSE 2 * BitAnd(a \div 2, b \div 2) + (IF a % 2 = 1 /\ b % 2 = 1 THEN 1 ELSE 0)

\* a pause test that looks at the whole mask instead of the operation's bit
is_paused_any(paused_operations, operation_flag) ==
    paused_operations # 0

\* EmergencyState::is_paused
is_paused(paused_operations, operation_flag) ==
    BitAnd(paused_operations, operation_flag) # 0

check_emergency_state(a, operation_flag) ==
    IF is_paused(a.paused_operations, operation_flag) THEN "OperationPaused" ELSE "Ok"

\* position of the first entry for bin_id in a Committed.bins list, 0 when there is none
find_bin(bins, bin_id) ==
    IF \E i \in 1..Len(bins) : bins[i].bin_id = bin_id
    THEN CHOOSE i \in 1..Len(bins) :
            /\ bins[i].bin_id = bin_id
            /\ \A j \in 1..(i - 1) : bins[j].bin_id # bin_id
    ELSE 0

RECURSIVE total_payment_committed(_)
total_payment_committed(bins) ==
    IF bins = <<>> THEN 0
    ELSE Head(bins).payment_token_committed + total_payment_committed(Tail(bins))

(***************************************************************************)
(* extensions.rs                                                           *)
(***************************************************************************)
AuctionKey == "auction"

WhitelistPayload(user, bin_id, payment_token_committed, nonce, expiry) ==
    [user |-> user, auction |-> AuctionKey, bin_id |-> bin_id,
     payment_token_committed |-> payment_token_committed,
     nonce |-> nonce, expiry |-> expiry]

\* Borsh encoding of a WhitelistPayload: the fields in declaration order, each of
\* fixed width, so two encodings are equal exactly when all fields are
serialize(p) ==
    <<p.user, p.auction, p.bin_id, p.payment_token_committed, p.nonce, p.expiry>>

is_whitelist_enabled(ext) == IsSome(ext.whitelist_authority)

\* The checks of verify_whitelist_signature on the instruction at index 0 of the
\* transaction, for the signer key expected_signer.  ix.kind is "unreadable" (the
\* sysvar cannot be loaded), "other_program", "malformed" or "ed25519"; an
\* "ed25519" instruction carries the public key and the message it verified.
verify_signature_authorization(ix, user, bin_id, payment_token_committed, current_nonce, expiry, current_time, expected_signer) ==
    IF ix.kind = "unreadable" THEN "MissingSysvarInstructions"
    ELSE IF ix.kind = "other_program" THEN "WrongProgram"
    ELSE IF ix.kind = "malformed" THEN "MalformedEd25519Ix"
    ELSE IF ix.public_key # expected_signer THEN "WrongWhitelistAuthority"
    ELSE IF ix.message # serialize(WhitelistPayload(user, bin_id, payment_token_committed,
                                                    current_nonce, expiry))
         THEN "PayloadMismatch"
    ELSE IF ~(current_time <= expiry) THEN "SignatureExpired"
    ELSE "Ok"

\* a verification that never finds a signature expired
verify_whitelist_signature_unexpiring(ext, ix, user, bin_id, payment_token_committed, current_nonce, expiry, current_time) ==
    verify_signature_authorization(ix, user, bin_id, payment_token_committed,
                                   current_nonce, expiry, 0,
                                   Unwrap(ext.whitelist_authority))

verify_whitelist_signature(ext, ix, user, bin_id, payment_token_committed, current_nonce, expiry, current_time) ==
    verify_signature_authorization(ix, user, bin_id, payment_token_committed,
                                   current_nonce, expiry, current_time,
                                   Unwrap(ext.whitelist_authority))

\* a cap applied to the amount of the call alone
check_commit_cap_exceeded_per_call(ext, committed_bins, additional_payment) ==
    IF IsSome(ext.commit_cap_per_user)
       /\ ~(additional_payment <= Unwrap(ext.commit_cap_per_user))
    THEN "CommitCapExceeded"
    ELSE "Ok"

check_commit_cap_exceeded(ext, committed_bins, additional_payment) ==
    IF IsSome(ext.commit_cap_per_user)
       /\ ~(total_payment_committed(committed_bins) + additional_payment
              <= Unwrap(ext.commit_cap_per_user))
    THEN "CommitCapExceeded"
    ELSE "Ok"

calculate_claim_fee(ext, sale_token_claimed) ==
    IF IsSome(ext.claim_fee_rate)
    THEN (sale_token_claimed * Unwrap(ext.claim_fee_rate)) \div FEE_DENOMINATOR
    ELSE 0

(***************************************************************************)
(* State                                                                   *)
(***************************************************************************)
VARIABLES
    auction,              \* the Auction account
    committed,            \* the Committed account of each user
    vault_payment_token,  \* balance of the payment vault
    vault_sale_token,     \* balance of the sale vault
    now,                  \* Clock::get()?.unix_timestamp
    consumed,             \* signed payloads on which a commit has been accepted
    replayed,             \* those of them on which a second commit has been accepted
    closed_committed,     \* per bin, the committed amounts of the records closed so far
    participants,         \* the users of whom a commit has been accepted
    calc                  \* the last call of a pure allocation function

vars == <<auction, committed, vault_payment_token, vault_sale_token, now,
          consumed, replayed, closed_committed, participants, calc>>

\* everything the program stores: the accounts and the vault balances
progvars == <<auction, committed, vault_payment_token, vault_sale_token>>

NoExtensions ==
    [whitelist_authority |-> None, commit_cap_per_user |-> None, claim_fee_rate |-> None]

\* the auction account before init_auction has created it
NoAuction ==
    [initialized |-> FALSE, authority |-> NoKey, custody |-> NoKey,
     commit_start_time |-> 0, commit_end_time |-> 0, claim_start_time |-> 0,
     bins |-> <<>>, extensions |-> NoExtensions, paused_operations |-> 0,
     total_participants |-> 0,
     unsold_sale_tokens_and_effective_payment_tokens_withdrawn |-> FALSE,
     total_fees_collected |-> 0, total_fees_withdrawn |-> 0]

\* a Committed account that does not exist: what init_if_needed creates (zeroed
\* data), and what is left once claim has closed the account
NoCommitted == [user |-> NoKey, bins |-> <<>>, nonce |-> 0]

MaxBins == 2
BinIds == 0..(MaxBins - 1)

IdleCalc == [fn |-> "idle"]

Init ==
    /\ auction = NoAuction
    /\ committed = [u \in Users |-> NoCommitted]
    /\ vault_payment_token = 0
    /\ vault_sale_token = 0
    /\ now = 0
    /\ consumed = {}
    /\ replayed = {}
    /\ closed_committed = [b \in BinIds |-> 0]
    /\ participants = {}
    /\ calc = IdleCalc

\* A rejected instruction: the runtime rolls the transaction back, so no account
\* and no balance changes; the error goes to the caller and is not stored.
\* a failed call that leaves a write to the Auction account behind
Rejected_mask_written ==
    /\ auction' = [auction EXCEPT !.paused_operations = 0]
    /\ UNCHANGED <<committed, vault_payment_token, vault_sale_token, now, consumed,
                   replayed, closed_committed, participants, calc>>

Rejected == UNCHANGED vars

\* the clock never goes back
Tick ==
    /\ now < MaxTime
    /\ now' = now + 1
    /\ UNCHANGED <<auction, committed, vault_payment_token, vault_sale_token,
                   consumed, replayed, closed_committed, participants, calc>>

(***************************************************************************)
(* init_auction                                                            *)
(***************************************************************************)
BinParams(price, cap) == [sale_token_price |-> price, sale_token_cap |-> cap]

FullExtensions ==
    [whitelist_authority |-> Some(WhitelistKey), commit_cap_per_user |-> Some(3),
     claim_fee_rate |-> Some(5000)]

FeeOnly == [NoExtensions EXCEPT !.claim_fee_rate = Some(5000)]

OneBin == <<BinParams(1, 2)>>
TwoBins == <<BinParams(1, 2), BinParams(2, 1)>>

InitParams(caller, times, bins, custody, extensions) ==
    [caller |-> caller, times |-> times, bins |-> bins, custody |-> custody,
     extensions |-> extensions]

\* the calls of init_auction the model makes; times is
\* <<commit_start_time, commit_end_time, claim_start_time>>
InitChoices ==
    {InitParams(LAUNCHPAD_ADMIN, <<2, 2, 2>>, OneBin, "u2", FullExtensions),
     InitParams(LAUNCHPAD_ADMIN, <<1, 1, 2>>, TwoBins, "u2", FeeOnly),
     InitParams("u1", <<1, 1, 2>>, TwoBins, "u2", NoExtensions),
     InitParams(LAUNCHPAD_ADMIN, <<1, 1, 0>>, TwoBins, "u2", NoExtensions),
     InitParams(LAUNCHPAD_ADMIN, <<1, 1, 2>>, <<>>, "u2", NoExtensions),
     InitParams(LAUNCHPAD_ADMIN, <<1, 1, 2>>, <<BinParams(0, 1)>>, "u2", NoExtensions),
     InitParams(LAUNCHPAD_ADMIN, <<1, 1, 2>>, TwoBins, "u2",
                [NoExtensions EXCEPT !.claim_fee_rate = Some(0)]),
     InitParams(LAUNCHPAD_ADMIN, <<2, 1, 2>>, TwoBins, "u2", NoExtensions),
     InitParams(LAUNCHPAD_ADMIN, <<1, 1, 2>>, <<BinParams(1, 0)>>, "u2", NoExtensions),
     InitParams(LAUNCHPAD_ADMIN, <<1, 1, 2>>, [i \in 1..11 |-> BinParams(1, 1)], "u2",
                NoExtensions)}

AdminCallers == {LAUNCHPAD_ADMIN, "u1"}

RECURSIVE TotalRaised(_)
TotalRaised(bins) ==
    IF bins = <<>> THEN 0 ELSE Head(bins).payment_token_raised + TotalRaised(Tail(bins))

RECURSIVE SumCaps(_)
SumCaps(bins) ==
    IF bins = <<>> THEN 0 ELSE Head(bins).sale_token_cap + SumCaps(Tail(bins))

\* an init_auction that looks at the prices of the bins and not at their capacities
init_auction_err_price_only(caller, times, bins, extensions) ==
    IF caller # LAUNCHPAD_ADMIN THEN "OnlyLaunchpadAdmin"
    ELSE IF ~(now <= times[1] /\ times[1] <= times[2] /\ times[2] <= times[3])
         THEN "InvalidAuctionTimeRange"
    ELSE IF ~(Len(bins) >= 1 /\ Len(bins) <= 10) THEN "InvalidAuctionBinsLength"
    ELSE IF ~(\A i \in 1..Len(bins) : bins[i].sale_token_price > 0)
         THEN "InvalidAuctionBinsPriceOrCap"
    ELSE IF ~(IsSome(extensions.claim_fee_rate) => Unwrap(extensions.claim_fee_rate) > 0)
         THEN "NoClaimFeesConfigured"
    ELSE "Ok"

init_auction_err(caller, times, bins, extensions) ==
    IF caller # LAUNCHPAD_ADMIN THEN "OnlyLaunchpadAdmin"
    ELSE IF ~(now <= times[1] /\ times[1] <= times[2] /\ times[2] <= times[3])
         THEN "InvalidAuctionTimeRange"
    ELSE IF ~(Len(bins) >= 1 /\ Len(bins) <= 10) THEN "InvalidAuctionBinsLength"
    ELSE IF ~(\A i \in 1..Len(bins) :
                bins[i].sale_token_price > 0 /\ bins[i].sale_token_cap > 0)
         THEN "InvalidAuctionBinsPriceOrCap"
    ELSE IF ~(IsSome(extensions.claim_fee_rate) => Unwrap(extensions.claim_fee_rate) > 0)
         THEN "NoClaimFeesConfigured"
    ELSE "Ok"

\* the auction account is an `init` PDA: the instruction runs once
init_auction(caller, times, bins, custody, extensions) ==
    /\ ~auction.initialized
    /\ IF init_auction_err(caller, times, bins, extensions) # "Ok" THEN Rejected
       ELSE /\ auction' =
                 [initialized |-> TRUE, authority |-> LAUNCHPAD_ADMIN, custody |-> custody,
                  commit_start_time |-> times[1], commit_end_time |-> times[2],
                  claim_start_time |-> times[3],
                  bins |-> [i \in 1..Len(bins) |->
                              [sale_token_price |-> bins[i].sale_token_price,
                               sale_token_cap |-> bins[i].sale_token_cap,
                               payment_token_raised |-> 0,
                               sale_token_claimed |-> 0]],
                  extensions |-> extensions, paused_operations |-> 0,
                  total_participants |-> 0,
                  unsold_sale_tokens_and_effective_payment_tokens_withdrawn |-> FALSE,
                  total_fees_collected |-> 0, total_fees_withdrawn |-> 0]
            /\ vault_sale_token' = vault_sale_token + SumCaps(bins)
            /\ UNCHANGED <<committed, vault_payment_token, now, consumed, replayed,
                           closed_committed, participants, calc>>

InitAuction(choices) ==
    \E p \in choices :
        init_auction(p.caller, p.times, p.bins, p.custody, p.extensions)

(***************************************************************************)
(* commit                                                                  *)
(***************************************************************************)
Ed25519Ix(public_key, message) ==
    [kind |-> "ed25519", public_key |-> public_key, message |-> message]
OtherIx(kind) == [kind |-> kind, public_key |-> NoKey, message |-> <<>>]

\* a custody check that takes the signature of whatever authority is presented
check_custody_authorization_any_authority(user, bin_id, payment_token_committed, expiry, custody, custody_authority, sysvar_instructions) ==
    IF user = custody THEN [err |-> "Ok", value |-> TRUE]
    ELSE IF IsSome(custody_authority) /\ IsSome(sysvar_instructions)
    THEN LET e == verify_signature_authorization(
                      Unwrap(sysvar_instructions), user, bin_id,
                      payment_token_committed, committed[user].nonce, expiry, now,
                      Unwrap(custody_authority))
         IN  [err |-> e, value |-> e = "Ok"]
    ELSE [err |-> "Ok", value |-> FALSE]

\* a custody check that knows the custody only by its signature, not as a caller
check_custody_authorization_by_signature(user, bin_id, payment_token_committed, expiry, custody, custody_authority, sysvar_instructions) ==
    IF IsSome(custody_authority)
    THEN IF Unwrap(custody_authority) # custody
         THEN [err |-> "InvalidCustodyAuthority", value |-> FALSE]
         ELSE IF IsSome(sysvar_instructions)
         THEN LET e == verify_signature_authorization(
                           Unwrap(sysvar_instructions), user, bin_id,
                           payment_token_committed, committed[user].nonce, expiry, now,
                           Unwrap(custody_authority))
              IN  [err |-> e, value |-> e = "Ok"]
         ELSE [err |-> "Ok", value |-> FALSE]
    ELSE [err |-> "Ok", value |-> FALSE]

\* [err, value] of check_custody_authorization; custody_authority and
\* sysvar_instructions are the optional accounts of the Commit context
check_custody_authorization(user, bin_id, payment_token_committed, expiry, custody, custody_authority, sysvar_instructions) ==
    IF user = custody THEN [err |-> "Ok", value |-> TRUE]
    ELSE IF IsSome(custody_authority)
    THEN IF Unwrap(custody_authority) # custody
         THEN [err |-> "InvalidCustodyAuthority", value |-> FALSE]
         ELSE IF IsSome(sysvar_instructions)
         THEN LET e == verify_signature_authorization(
                           Unwrap(sysvar_instructions), user, bin_id,
                           payment_token_committed, committed[user].nonce, expiry, now,
                           Unwrap(custody_authority))
              IN  [err |-> e, value |-> e = "Ok"]
         ELSE [err |-> "Ok", value |-> FALSE]
    ELSE [err |-> "Ok", value |-> FALSE]

\* the extension validations of commit, skipped when custody authorized
commit_extension_err(user, bin_id, payment_token_committed, expiry, sysvar_instructions) ==
    LET cap == check_commit_cap_exceeded(auction.extensions, committed[user].bins,
                                         payment_token_committed)
    IN  IF cap # "Ok" THEN cap
        ELSE IF is_whitelist_enabled(auction.extensions)
        THEN IF ~IsSome(sysvar_instructions) THEN "MissingSysvarInstructions"
             ELSE verify_whitelist_signature(auction.extensions, Unwrap(sysvar_instructions),
                                             user, bin_id, payment_token_committed,
                                             committed[user].nonce, expiry, now)
        ELSE "Ok"

\* the checks of commit with a commit window that excludes commit_end_time
commit_checks_end_excluded(user, bin_id, payment_token_committed, expiry, custody_authority, sysvar_instructions) ==
    LET paused == check_emergency_state(auction, PAUSE_AUCTION_COMMIT)
        ca == check_custody_authorization(user, bin_id, payment_token_committed, expiry,
                                          auction.custody, custody_authority,
                                          sysvar_instructions)
    IN  IF paused # "Ok" THEN [err |-> paused, is_custody_authorized |-> FALSE]
        ELSE IF ~(auction.commit_start_time <= now /\ now < auction.commit_end_time)
        THEN [err |-> "OutOfCommitmentPeriod", is_custody_authorized |-> FALSE]
        ELSE IF payment_token_committed = 0
        THEN [err |-> "InvalidCommitmentAmount", is_custody_authorized |-> FALSE]
        ELSE IF bin_id >= Len(auction.bins)
        THEN [err |-> "InvalidBinId", is_custody_authorized |-> FALSE]
        ELSE IF ca.err # "Ok" THEN [err |-> ca.err, is_custody_authorized |-> FALSE]
        ELSE IF ca.value THEN [err |-> "Ok", is_custody_authorized |-> TRUE]
        ELSE [err |-> commit_extension_err(user, bin_id, payment_token_committed, expiry,
                                           sysvar_instructions),
              is_custody_authorized |-> FALSE]

\* [err, is_custody_authorized]: every check of commit, in the order of the handler
commit_checks(user, bin_id, payment_token_committed, expiry, custody_authority, sysvar_instructions) ==
    LET paused == check_emergency_state(auction, PAUSE_AUCTION_COMMIT)
        ca == check_custody_authorization(user, bin_id, payment_token_committed, expiry,
                                          auction.custody, custody_authority,
                                          sysvar_instructions)
    IN  IF paused # "Ok" THEN [err |-> paused, is_custody_authorized |-> FALSE]
        ELSE IF ~(auction.commit_start_time <= now /\ now <= auction.commit_end_time)
        THEN [err |-> "OutOfCommitmentPeriod", is_custody_authorized |-> FALSE]
        ELSE IF payment_token_committed = 0
        THEN [err |-> "InvalidCommitmentAmount", is_custody_authorized |-> FALSE]
        ELSE IF bin_id >= Len(auction.bins)
        THEN [err |-> "InvalidBinId", is_custody_authorized |-> FALSE]
        ELSE IF ca.err # "Ok" THEN [err |-> ca.err, is_custody_authorized |-> FALSE]
        ELSE IF ca.value THEN [err |-> "Ok", is_custody_authorized |-> TRUE]
        ELSE [err |-> commit_extension_err(user, bin_id, payment_token_committed, expiry,
                                           sysvar_instructions),
              is_custody_authorized |-> FALSE]

commit_err(user, bin_id, payment_token_committed, expiry, custody_authority, sysvar_instructions) ==
    commit_checks(user, bin_id, payment_token_committed, expiry,
                  custody_authority, sysvar_instructions).err

\* add_or_update_bin overwriting the entry it finds instead of adding to it
commit_bins_overwrite(bins, bin_id, payment_token_committed) ==
    LET i == find_bin(bins, bin_id)
    IN  IF i # 0
        THEN [bins EXCEPT ![i].payment_token_committed = payment_token_committed]
        ELSE Append(bins, [bin_id |-> bin_id,
                           payment_token_committed |-> payment_token_committed,
                           sale_token_claimed |-> 0,
                           payment_token_refunded |-> 0])

\* Committed.bins after the commit: the entry of bin_id grows, or a new entry is pushed
commit_bins(bins, bin_id, payment_token_committed) ==
    LET i == find_bin(bins, bin_id)
    IN  IF i # 0
        THEN [bins EXCEPT ![i].payment_token_committed = @ + payment_token_committed]
        ELSE Append(bins, [bin_id |-> bin_id,
                           payment_token_committed |-> payment_token_committed,
                           sale_token_claimed |-> 0,
                           payment_token_refunded |-> 0])

\* the signature a successful commit was accepted on, if it verified one
commit_auth(user, is_custody_authorized, sysvar_instructions) ==
    IF (is_custody_authorized /\ user # auction.custody)
       \/ (~is_custody_authorized /\ is_whitelist_enabled(auction.extensions))
    THEN Some([public_key |-> Unwrap(sysvar_instructions).public_key,
               message |-> Unwrap(sysvar_instructions).message])
    ELSE None

commit(user, bin_id, payment_token_committed, expiry, custody_authority, sysvar_instructions) ==
    /\ auction.initialized
    /\ LET c == commit_checks(user, bin_id, payment_token_committed, expiry,
                              custody_authority, sysvar_instructions)
           is_new_participant == committed[user].bins = <<>>
       IN  IF c.err # "Ok" THEN Rejected
           ELSE /\ TotalRaised(auction.bins) + payment_token_committed <= MaxRaised
                /\ committed[user].nonce < MaxNonce
                /\ is_new_participant => auction.total_participants < MaxParticipants
                /\ committed' = [committed EXCEPT ![user] =
                      [user |-> user,
                       bins |-> commit_bins(@.bins, bin_id, payment_token_committed),
                       nonce |-> (IF is_new_participant THEN 0 ELSE @.nonce) + 1]]
                /\ auction' = [auction EXCEPT
                      !.total_participants = IF is_new_participant THEN @ + 1 ELSE @,
                      !.bins[bin_id + 1].payment_token_raised = @ + payment_token_committed]
                /\ vault_payment_token' = vault_payment_token + payment_token_committed
                /\ LET auth == commit_auth(user, c.is_custody_authorized, sysvar_instructions)
                   IN  /\ consumed' \in {consumed} \cup
                                        {consumed \cup {Unwrap(auth)} :
                                           k \in {x \in {1} : /\ IsSome(auth)
                                                               /\ Cardinality(consumed) < MaxWatched}}
                       /\ replayed' = IF IsSome(auth) /\ Unwrap(auth) \in consumed
                                      THEN replayed \cup {Unwrap(auth)}
                                      ELSE replayed
                /\ participants' = participants \cup {user}
                /\ UNCHANGED <<vault_sale_token, now, closed_committed, calc>>

\* <<bin_id, payment_token_committed>> of the commit calls
CommitShapes == {<<0, 1>>, <<0, 2>>, <<1, 2>>, <<0, 0>>, <<MaxBins, 1>>}
\* <<bin_id, payment_token_reverted>> of the decrease_commit calls
DecreaseShapes == {<<0, 1>>, <<1, 2>>, <<0, 0>>, <<MaxBins, 1>>}

Canonical(user, bin_id, payment_token_committed, nonce, expiry) ==
    serialize(WhitelistPayload(user, bin_id, payment_token_committed, nonce, expiry))

\* <<expiry, custody_authority, sysvar_instructions>> of the commit calls: no
\* authorization at all; an Ed25519 verification, at index 0 of the transaction, of
\* this call's payload signed by the whitelist authority (at the record's nonce or
\* at the next one) or by the custody key; an instruction that is no Ed25519
\* verification; an earlier commit's consumed signature presented again
AuthChoices(user, bin_id, amount) ==
    LET n == committed[user].nonce
    IN  {<<MaxTime, None, None>>,
         <<MaxTime, None, Some(Ed25519Ix(WhitelistKey, Canonical(user, bin_id, amount, n, MaxTime)))>>,
         <<MaxTime, None, Some(Ed25519Ix(WhitelistKey, Canonical(user, bin_id, amount, n + 1, MaxTime)))>>,
         <<MaxTime, None, Some(OtherIx("other_program"))>>,
         <<MaxTime, Some("u2"), Some(Ed25519Ix("u2", Canonical(user, bin_id, amount, n, MaxTime)))>>}
        \cup {<<s.message[6],
                IF s.public_key = WhitelistKey THEN None ELSE Some(s.public_key),
                Some(Ed25519Ix(s.public_key, s.message))>> : s \in consumed}

Commit(shapes) ==
    \E user \in Users, shape \in shapes :
        \E a \in AuthChoices(user, shape[1], shape[2]) :
            commit(user, shape[1], shape[2], a[1], a[2], a[3])

(***************************************************************************)
(* decrease_commit                                                         *)
(***************************************************************************)
\* Anchor loads the Committed account passed as `committed` before the handler
\* runs: it must exist, and where the context says has_one = user it must be the
\* caller's
committed_account_err(user, owner, has_one) ==
    IF committed[owner].user = NoKey THEN "AccountNotInitialized"
    ELSE IF has_one /\ committed[owner].user # user THEN "ConstraintHasOne"
    ELSE "Ok"

\* decrease_commit without the comparison of the amount with the entry
decrease_commit_err_uncompared(user, owner, bin_id, payment_token_reverted) ==
    LET acct == committed_account_err(user, owner, TRUE)
        paused == check_emergency_state(auction, PAUSE_AUCTION_COMMIT)
        i == find_bin(committed[owner].bins, bin_id)
    IN  IF acct # "Ok" THEN acct
        ELSE IF paused # "Ok" THEN paused
        ELSE IF ~(auction.commit_start_time <= now /\ now <= auction.commit_end_time)
        THEN "OutOfCommitmentPeriod"
        ELSE IF payment_token_reverted = 0 THEN "InvalidCommitmentAmount"
        ELSE IF i = 0 THEN "InvalidBinId"
        ELSE IF bin_id >= Len(auction.bins) THEN "InvalidBinId"
        ELSE IF vault_payment_token < payment_token_reverted THEN "InsufficientFunds"
        ELSE "Ok"

\* user calls decrease_commit on the Committed account of owner
decrease_commit_err(user, owner, bin_id, payment_token_reverted) ==
    LET acct == committed_account_err(user, owner, TRUE)
        paused == check_emergency_state(auction, PAUSE_AUCTION_COMMIT)
        i == find_bin(committed[owner].bins, bin_id)
    IN  IF acct # "Ok" THEN acct
        ELSE IF paused # "Ok" THEN paused
        ELSE IF ~(auction.commit_start_time <= now /\ now <= auction.commit_end_time)
        THEN "OutOfCommitmentPeriod"
        ELSE IF payment_token_reverted = 0 THEN "InvalidCommitmentAmount"
        ELSE IF i = 0 THEN "InvalidBinId"
        ELSE IF ~(committed[owner].bins[i].payment_token_committed >= payment_token_reverted)
        THEN "InvalidCommitmentAmount"
        ELSE IF bin_id >= Len(auction.bins) THEN "InvalidBinId"
        ELSE IF vault_payment_token < payment_token_reverted THEN "InsufficientFunds"
        ELSE "Ok"

decrease_commit(user, owner, bin_id, payment_token_reverted) ==
    /\ auction.initialized
    /\ IF decrease_commit_err(user, owner, bin_id, payment_token_reverted) # "Ok"
       THEN Rejected
       ELSE LET i == find_bin(committed[owner].bins, bin_id)
            IN  /\ committed' = [committed EXCEPT
                      ![owner].bins[i].payment_token_committed = @ - payment_token_reverted]
                /\ auction' = [auction EXCEPT
                      !.bins[bin_id + 1].payment_token_raised = @ - payment_token_reverted]
                /\ vault_payment_token' = vault_payment_token - payment_token_reverted
                /\ UNCHANGED <<vault_sale_token, now, consumed, replayed,
                               closed_committed, participants, calc>>

\* <<caller, owner of the Committed account passed>>
AccountChoices == {<<"u1", "u1">>, <<"u2", "u2">>, <<"u1", "u2">>}

DecreaseCommit(shapes) ==
    \E who \in AccountChoices, shape \in shapes :
        decrease_commit(who[1], who[2], shape[1], shape[2])

(***************************************************************************)
(* claim                                                                   *)
(***************************************************************************)
\* a.saturating_sub(b)
\* the subtraction of what was already paid out forgotten
saturating_sub_forgotten(a, b) == a

saturating_sub(a, b) == IF a >= b THEN a - b ELSE 0

\* a claim that does not record in the entry what it has paid
claim_committed_bins_unrecorded(bins, i, sale_token_to_claim, payment_token_to_refund) == bins

\* Committed.bins and Auction.bins after the two transfers of a claim
claim_committed_bins(bins, i, sale_token_to_claim, payment_token_to_refund) ==
    [bins EXCEPT ![i].sale_token_claimed = @ + sale_token_to_claim,
                 ![i].payment_token_refunded = @ + payment_token_to_refund]

\* a claim that does not count the sale tokens in the bin
claim_auction_bins_uncounted(bins, bin_id, sale_token_to_claim) == bins

claim_auction_bins(bins, bin_id, sale_token_to_claim) ==
    [bins EXCEPT ![bin_id + 1].sale_token_claimed = @ + sale_token_to_claim]

\* [err, close]: every check of claim in the order of the handler, and whether the
\* Committed account is closed at the end
claim_checks(user, owner, bin_id, sale_token_to_claim, payment_token_to_refund) ==
    LET acct == committed_account_err(user, owner, FALSE)
        paused == check_emergency_state(auction, PAUSE_AUCTION_CLAIM)
        claim_fee == calculate_claim_fee(auction.extensions, sale_token_to_claim)
        i == find_bin(committed[owner].bins, bin_id)
        committed_bin == committed[owner].bins[i]
        claimable_amounts == EntitlementOf(committed_bin, auction.bins)
        remaining_sale_tokens ==
            saturating_sub(claimable_amounts.sale_tokens, committed_bin.sale_token_claimed)
        remaining_payment_refund ==
            saturating_sub(claimable_amounts.refund_payment_tokens,
                           committed_bin.payment_token_refunded)
        actual_tokens_to_user == saturating_sub(sale_token_to_claim, claim_fee)
        current_bin_fully_claimed ==
            /\ committed_bin.sale_token_claimed + sale_token_to_claim
                 >= claimable_amounts.sale_tokens
            /\ payment_token_to_refund >= remaining_payment_refund
        all == check_all_bins_fully_claimed(
                   claim_committed_bins(committed[owner].bins, i, sale_token_to_claim,
                                        payment_token_to_refund),
                   claim_auction_bins(auction.bins, bin_id, sale_token_to_claim))
        Fail(e) == [err |-> e, close |-> FALSE]
    IN  IF acct # "Ok" THEN Fail(acct)
        ELSE IF paused # "Ok" THEN Fail(paused)
        ELSE IF ~(auction.claim_start_time <= now) THEN Fail("OutOfClaimPeriod")
        ELSE IF ~(sale_token_to_claim # 0 \/ payment_token_to_refund # 0)
        THEN Fail("InvalidClaimAmount")
        ELSE IF committed[owner].user # user THEN Fail("Unauthorized")
        ELSE IF i = 0 THEN Fail("InvalidBinId")
        ELSE IF bin_id >= Len(auction.bins) THEN Fail("InvalidBinId")
        ELSE IF claimable_amounts.err # "Ok" THEN Fail(claimable_amounts.err)
        ELSE IF validate(claimable_amounts, committed_bin.payment_token_committed) # "Ok"
        THEN Fail("InvalidCalculation")
        ELSE IF ~(sale_token_to_claim <= remaining_sale_tokens
                  /\ payment_token_to_refund <= remaining_payment_refund)
        THEN Fail("InvalidClaimAmount")
        ELSE IF sale_token_to_claim > 0 /\ vault_sale_token < actual_tokens_to_user
        THEN Fail("InsufficientFunds")
        ELSE IF payment_token_to_refund > 0 /\ vault_payment_token < payment_token_to_refund
        THEN Fail("InsufficientFunds")
        ELSE IF ~current_bin_fully_claimed THEN [err |-> "Ok", close |-> FALSE]
        ELSE IF all.err # "Ok" THEN Fail(all.err)
        ELSE [err |-> "Ok", close |-> all.value]

claim_err(user, owner, bin_id, sale_token_to_claim, payment_token_to_refund) ==
    claim_checks(user, owner, bin_id, sale_token_to_claim, payment_token_to_refund).err

\* per bin, the committed amount a Committed.bins list holds
committed_in(bins, bin_id) ==
    LET i == find_bin(bins, bin_id)
    IN  IF i = 0 THEN 0 ELSE bins[i].payment_token_committed

claim(user, owner, bin_id, sale_token_to_claim, payment_token_to_refund) ==
    /\ auction.initialized
    /\ LET c == claim_checks(user, owner, bin_id, sale_token_to_claim,
                             payment_token_to_refund)
           i == find_bin(committed[owner].bins, bin_id)
           claim_fee == calculate_claim_fee(auction.extensions, sale_token_to_claim)
           actual_tokens_to_user == saturating_sub(sale_token_to_claim, claim_fee)
       IN  IF c.err # "Ok" THEN Rejected
           ELSE /\ committed' = [committed EXCEPT ![owner] =
                      IF c.close THEN NoCommitted
                      ELSE [@ EXCEPT !.bins = claim_committed_bins(
                                @, i, sale_token_to_claim, payment_token_to_refund)]]
                /\ auction' = [auction EXCEPT
                      !.bins = claim_auction_bins(@, bin_id, sale_token_to_claim),
                      !.total_fees_collected =
                          IF sale_token_to_claim > 0 /\ claim_fee > 0 THEN @ + claim_fee ELSE @]
                /\ vault_sale_token' =
                      IF sale_token_to_claim > 0 THEN vault_sale_token - actual_tokens_to_user
                      ELSE vault_sale_token
                /\ vault_payment_token' = vault_payment_token - payment_token_to_refund
                /\ closed_committed' =
                      IF c.close
                      THEN [b \in BinIds |->
                              closed_committed[b] + committed_in(committed[owner].bins, b)]
                      ELSE closed_committed
                /\ UNCHANGED <<now, consumed, replayed, participants, calc>>

\* <<bin_id, sale_token_to_claim, payment_token_to_refund>> of the claim calls
ClaimShapes ==
    {<<b, s, r>> : b \in BinIds, s \in 0..2, r \in 0..2} \cup {<<MaxBins, 1, 0>>}

Claim(shapes) ==
    \E who \in AccountChoices, shape \in shapes :
        claim(who[1], who[2], shape[1], shape[2], shape[3])

(***************************************************************************)
(* withdraw_funds, withdraw_fees, set_price, emergency_control             *)
(***************************************************************************)
\* the has_one = authority constraint of the admin contexts, checked by Anchor
\* before the handler runs
authority_err(caller, e) == IF caller # auction.authority THEN e ELSE "Ok"

\* withdraw_funds without the one-shot flag check
withdraw_funds_err_unflagged(caller) ==
    LET acct == authority_err(caller, "ConstraintHasOne")
        paused == check_emergency_state(auction, PAUSE_AUCTION_WITHDRAW_FUNDS)
        total_amounts == calculate_total_withdraw_amounts(auction.bins)
    IN  IF acct # "Ok" THEN acct
        ELSE IF paused # "Ok" THEN paused
        ELSE IF ~(now > auction.commit_end_time) THEN "InCommitmentPeriod"
        ELSE IF total_amounts.err # "Ok" THEN total_amounts.err
        ELSE IF vault_payment_token < total_amounts.total_payment_tokens
        THEN "InsufficientFunds"
        ELSE IF vault_sale_token < total_amounts.total_unsold_sale_tokens
        THEN "InsufficientFunds"
        ELSE "Ok"

\* withdraw_funds with a window check that lets a call at commit_end_time through
withdraw_funds_err_at_end(caller) ==
    LET acct == authority_err(caller, "ConstraintHasOne")
        paused == check_emergency_state(auction, PAUSE_AUCTION_WITHDRAW_FUNDS)
        total_amounts == calculate_total_withdraw_amounts(auction.bins)
    IN  IF acct # "Ok" THEN acct
        ELSE IF paused # "Ok" THEN paused
        ELSE IF auction.unsold_sale_tokens_and_effective_payment_tokens_withdrawn
        THEN "DoubleFundsWithdrawal"
        ELSE IF ~(now >= auction.commit_end_time) THEN "InCommitmentPeriod"
        ELSE IF total_amounts.err # "Ok" THEN total_amounts.err
        ELSE IF vault_payment_token < total_amounts.total_payment_tokens
        THEN "InsufficientFunds"
        ELSE IF vault_sale_token < total_amounts.total_unsold_sale_tokens
        THEN "InsufficientFunds"
        ELSE "Ok"

withdraw_funds_err(caller) ==
    LET acct == authority_err(caller, "ConstraintHasOne")
        paused == check_emergency_state(auction, PAUSE_AUCTION_WITHDRAW_FUNDS)
        total_amounts == calculate_total_withdraw_amounts(auction.bins)
    IN  IF acct # "Ok" THEN acct
        ELSE IF paused # "Ok" THEN paused
        ELSE IF auction.unsold_sale_tokens_and_effective_payment_tokens_withdrawn
        THEN "DoubleFundsWithdrawal"
        ELSE IF ~(now > auction.commit_end_time) THEN "InCommitmentPeriod"
        ELSE IF auction.authority # caller THEN "Unauthorized"
        ELSE IF total_amounts.err # "Ok" THEN total_amounts.err
        ELSE IF vault_payment_token < total_amounts.total_payment_tokens
        THEN "InsufficientFunds"
        ELSE IF vault_sale_token < total_amounts.total_unsold_sale_tokens
        THEN "InsufficientFunds"
        ELSE "Ok"

withdraw_funds(caller) ==
    /\ auction.initialized
    /\ IF withdraw_funds_err(caller) # "Ok" THEN Rejected
       ELSE LET total_amounts == calculate_total_withdraw_amounts(auction.bins)
            IN  /\ vault_payment_token' =
                      vault_payment_token - total_amounts.total_payment_tokens
                /\ vault_sale_token' = vault_sale_token - total_amounts.total_unsold_sale_tokens
                /\ auction' = [auction EXCEPT
                      !.unsold_sale_tokens_and_effective_payment_tokens_withdrawn = TRUE]
                /\ UNCHANGED <<committed, now, consumed, replayed, closed_committed,
                               participants, calc>>

WithdrawFunds == \E caller \in AdminCallers : withdraw_funds(caller)

\* a withdraw_fees whose transfer does not look at the balance of the sale vault
withdraw_fees_err_unbalanced(caller) ==
    LET acct == authority_err(caller, "ConstraintHasOne")
        paused == check_emergency_state(auction, PAUSE_AUCTION_WITHDRAW_FEES)
        fees_to_withdraw == calculate_withdrawable_fees(auction.total_fees_collected,
                                                        auction.total_fees_withdrawn)
    IN  IF acct # "Ok" THEN acct
        ELSE IF paused # "Ok" THEN paused
        ELSE IF ~(now > auction.commit_end_time) THEN "InCommitmentPeriod"
        ELSE IF fees_to_withdraw.err # "Ok" THEN fees_to_withdraw.err
        ELSE "Ok"

withdraw_fees_err(caller) ==
    LET acct == authority_err(caller, "ConstraintHasOne")
        paused == check_emergency_state(auction, PAUSE_AUCTION_WITHDRAW_FEES)
        fees_to_withdraw == calculate_withdrawable_fees(auction.total_fees_collected,
                                                        auction.total_fees_withdrawn)
    IN  IF acct # "Ok" THEN acct
        ELSE IF paused # "Ok" THEN paused
        ELSE IF ~(now > auction.commit_end_time) THEN "InCommitmentPeriod"
        ELSE IF fees_to_withdraw.err # "Ok" THEN fees_to_withdraw.err
        ELSE IF vault_sale_token < fees_to_withdraw.value THEN "InsufficientFunds"
        ELSE "Ok"

withdraw_fees(caller) ==
    /\ auction.initialized
    /\ IF withdraw_fees_err(caller) # "Ok" THEN Rejected
       ELSE LET fees_to_withdraw ==
                    calculate_withdrawable_fees(auction.total_fees_collected,
                                                auction.total_fees_withdrawn).value
            IN  /\ vault_sale_token' = vault_sale_token - fees_to_withdraw
                /\ auction' = [auction EXCEPT !.total_fees_withdrawn = @ + fees_to_withdraw]
                /\ UNCHANGED <<committed, vault_payment_token, now, consumed, replayed,
                               closed_committed, participants, calc>>

WithdrawFees == \E caller \in AdminCallers : withdraw_fees(caller)

\* a set_price that takes any price
set_price_err_any_price(caller, bin_id, new_price) ==
    LET acct == authority_err(caller, "ConstraintHasOne")
        paused == check_emergency_state(auction, PAUSE_AUCTION_UPDATION)
    IN  IF acct # "Ok" THEN acct
        ELSE IF paused # "Ok" THEN paused
        ELSE IF bin_id >= Len(auction.bins) THEN "InvalidBinId"
        ELSE "Ok"

set_price_err(caller, bin_id, new_price) ==
    LET acct == authority_err(caller, "ConstraintHasOne")
        paused == check_emergency_state(auction, PAUSE_AUCTION_UPDATION)
    IN  IF acct # "Ok" THEN acct
        ELSE IF paused # "Ok" THEN paused
        ELSE IF ~(new_price > 0) THEN "InvalidAuctionBinsPriceOrCap"
        ELSE IF bin_id >= Len(auction.bins) THEN "InvalidBinId"
        ELSE "Ok"

set_price(caller, bin_id, new_price) ==
    /\ auction.initialized
    /\ IF set_price_err(caller, bin_id, new_price) # "Ok" THEN Rejected
       ELSE /\ auction' = [auction EXCEPT !.bins[bin_id + 1].sale_token_price = new_price]
            /\ UNCHANGED <<committed, vault_payment_token, vault_sale_token, now,
                           consumed, replayed, closed_committed, participants, calc>>

\* <<caller, bin_id, new_price>> of the set_price calls
SetPriceChoices ==
    {<<LAUNCHPAD_ADMIN, 0, 1>>, <<LAUNCHPAD_ADMIN, 0, 2>>, <<LAUNCHPAD_ADMIN, 0, 0>>,
     <<LAUNCHPAD_ADMIN, MaxBins, 1>>, <<"u1", 0, 2>>}

SetPrice(choices) == \E c \in choices : set_price(c[1], c[2], c[3])

EmergencyControlParams(commit_, claim_, fees, funds, updation) ==
    [pause_auction_commit |-> commit_, pause_auction_claim |-> claim_,
     pause_auction_withdraw_fees |-> fees, pause_auction_withdraw_funds |-> funds,
     pause_auction_updation |-> updation]

\* a mask built on top of the previous one: the flags of params are added to the
\* bits already set
new_paused_operations_kept(params) ==
    LET n == (IF params.pause_auction_commit THEN PAUSE_AUCTION_COMMIT ELSE 0)
             + (IF params.pause_auction_claim THEN PAUSE_AUCTION_CLAIM ELSE 0)
             + (IF params.pause_auction_withdraw_fees THEN PAUSE_AUCTION_WITHDRAW_FEES ELSE 0)
             + (IF params.pause_auction_withdraw_funds THEN PAUSE_AUCTION_WITHDRAW_FUNDS ELSE 0)
             + (IF params.pause_auction_updation THEN PAUSE_AUCTION_UPDATION ELSE 0)
    IN  auction.paused_operations + n - BitAnd(auction.paused_operations, n)

\* the mask emergency_control builds from its params
new_paused_operations(params) ==
    (IF params.pause_auction_commit THEN PAUSE_AUCTION_COMMIT ELSE 0)
    + (IF params.pause_auction_claim THEN PAUSE_AUCTION_CLAIM ELSE 0)
    + (IF params.pause_auction_withdraw_fees THEN PAUSE_AUCTION_WITHDRAW_FEES ELSE 0)
    + (IF params.pause_auction_withdraw_funds THEN PAUSE_AUCTION_WITHDRAW_FUNDS ELSE 0)
    + (IF params.pause_auction_updation THEN PAUSE_AUCTION_UPDATION ELSE 0)

\* an emergency_control behind the pause gate of the admin updates
emergency_control_err_gated(caller) ==
    IF authority_err(caller, "OnlyLaunchpadAdmin") # "Ok"
    THEN authority_err(caller, "OnlyLaunchpadAdmin")
    ELSE check_emergency_state(auction, PAUSE_AUCTION_UPDATION)

emergency_control_err(caller) == authority_err(caller, "OnlyLaunchpadAdmin")

emergency_control(caller, params) ==
    /\ auction.initialized
    /\ IF emergency_control_err(caller) # "Ok" THEN Rejected
       ELSE /\ auction' = [auction EXCEPT !.paused_operations = new_paused_operations(params)]
            /\ UNCHANGED <<committed, vault_payment_token, vault_sale_token, now,
                           consumed, replayed, closed_committed, participants, calc>>

\* every combination of the five flags
PauseChoices ==
    {EmergencyControlParams(a, b, c, d, e) :
        a \in BOOLEAN, b \in BOOLEAN, c \in BOOLEAN, d \in BOOLEAN, e \in BOOLEAN}

\* nothing paused, everything paused
PauseAllOrNothing ==
    {EmergencyControlParams(FALSE, FALSE, FALSE, FALSE, FALSE),
     EmergencyControlParams(TRUE, TRUE, TRUE, TRUE, TRUE)}

EmergencyControl(choices) ==
    \E caller \in AdminCallers, params \in choices : emergency_control(caller, params)

(***************************************************************************)
(* The ledger: both auctions of InitChoices, every handler, the pause mask  *)
(* all or nothing                                                           *)
(***************************************************************************)
Next ==
    \/ Tick
    \/ InitAuction(InitChoices)
    \/ Commit(CommitShapes)
    \/ DecreaseCommit(DecreaseShapes)
    \/ Claim(ClaimShapes)
    \/ WithdrawFunds
    \/ WithdrawFees
    \/ SetPrice(SetPriceChoices)
    \/ EmergencyControl(PauseAllOrNothing)

Spec == Init /\ [][Next]_vars

(***************************************************************************)
(* The pause gate: one auction, a few calls of every handler, every mask    *)
(***************************************************************************)
\* the custody key is u1's, so that no commit of this auction rests on a signature
GateInitChoices ==
    {InitParams(LAUNCHPAD_ADMIN, <<1, 1, 2>>, OneBin, "u1", FeeOnly),
     InitParams("u1", <<1, 1, 2>>, OneBin, "u1", FeeOnly)}
GateCommitShapes == {<<0, 2>>, <<0, 0>>}
GateDecreaseShapes == {<<0, 1>>, <<0, 0>>}
GateClaimShapes == {<<0, 2, 0>>, <<0, 1, 1>>, <<0, 0, 0>>}
GateSetPriceChoices == {<<LAUNCHPAD_ADMIN, 0, 2>>, <<LAUNCHPAD_ADMIN, 0, 0>>, <<"u1", 0, 2>>}

NextGate ==
    \/ Tick
    \/ InitAuction(GateInitChoices)
    \/ Commit(GateCommitShapes)
    \/ DecreaseCommit(GateDecreaseShapes)
    \/ Claim(GateClaimShapes)
    \/ WithdrawFunds
    \/ WithdrawFees
    \/ SetPrice(GateSetPriceChoices)
    \/ EmergencyControl(PauseChoices)

SpecGate == Init /\ [][NextGate]_vars

(***************************************************************************)
(* The pure allocation functions, applied to every input up to MaxCalc      *)
(***************************************************************************)
CalcInputs == 0..MaxCalc

\* the ratios AllocationRatio::calculate yields on CalcInputs
CalcRatios == {calculate(t, r).ratio : t \in CalcInputs, r \in CalcInputs}

\* everything but calc
ledger ==
    <<auction, committed, vault_payment_token, vault_sale_token, now, consumed, replayed,
      closed_committed, participants>>

Calculate ==
    \E target_amount \in CalcInputs, raised_amount \in CalcInputs :
        /\ calc' = [fn |-> "calculate", args |-> <<target_amount, raised_amount>>,
                    out |-> calculate(target_amount, raised_amount)]
        /\ UNCHANGED ledger

ApplyToCommitment ==
    \E ratio \in CalcRatios, payment_token_committed \in CalcInputs :
        /\ calc' = [fn |-> "apply_to_commitment",
                    args |-> <<ratio, payment_token_committed>>,
                    out |-> apply_to_commitment(ratio, payment_token_committed)]
        /\ UNCHANGED ledger

CalculateClaimableAmounts ==
    \E user_committed \in CalcInputs, bin_target \in CalcInputs,
       bin_raised \in CalcInputs, sale_token_price \in CalcInputs :
        /\ calc' = [fn |-> "calculate_claimable_amounts",
                    args |-> <<user_committed, bin_target, bin_raised, sale_token_price>>,
                    out |-> calculate_claimable_amounts(user_committed, bin_target,
                                                        bin_raised, sale_token_price)]
        /\ UNCHANGED ledger

CalculateBinWithdrawAmounts ==
    \E bin_payment_raised \in CalcInputs, bin_sale_token_cap \in CalcInputs,
       bin_sale_token_price \in CalcInputs :
        /\ calc' = [fn |-> "calculate_bin_withdraw_amounts",
                    args |-> <<bin_payment_raised, bin_sale_token_cap, bin_sale_token_price>>,
                    out |-> calculate_bin_withdraw_amounts(
                                bin_payment_raised, bin_sale_token_cap, bin_sale_token_price)]
        /\ UNCHANGED ledger

NextCalc ==
    \/ Calculate
    \/ ApplyToCommitment
    \/ CalculateClaimableAmounts
    \/ CalculateBinWithdrawAmounts

SpecCalc == Init /\ [][NextCalc]_vars

(***************************************************************************)
(* C3                                                                      *)
(***************************************************************************)
\* C3: whenever calculate_claimable_amounts succeeds, the effective payment and
\* the refund it returns add up to the committed amount, so validate accepts them
C3_EffectivePlusRefundIsCommitted ==
    (calc.fn = "calculate_claimable_amounts" /\ calc.out.err = "Ok")
        => /\ calc.out.effective_payment_tokens + calc.out.refund_payment_tokens
                 = calc.args[1]
           /\ validate(calc.out, calc.args[1]) = "Ok"

\* an oversubscribed bin whose ratio truncates: 2 committed against a target of 2
\* with 3 raised splits into 1 effective and 1 refunded
C3_Witness ==
    /\ calc.fn = "calculate_claimable_amounts"
    /\ calc.args = <<2, 2, 3, 1>>
    /\ calc.out.err = "Ok"
    /\ calc.out.effective_payment_tokens = 1
    /\ calc.out.refund_payment_tokens = 1

C1_ClaimedWithinCap ==
    \A b \in 1..Len(auction.bins) :
        auction.bins[b].sale_token_claimed <= auction.bins[b].sale_token_cap

(***************************************************************************)
(* C2                                                                      *)
(***************************************************************************)
\* the refund an entry is still entitled to
RemainingRefund(committed_bin) ==
    LET e == EntitlementOf(committed_bin, auction.bins)
    IN  IF e.err # "Ok" THEN 0
        ELSE saturating_sub(e.refund_payment_tokens, committed_bin.payment_token_refunded)

\* C2: the payment vault always covers what the program computes as owed: no claim
\* of a refund within the entry's remaining entitlement, and no withdraw_funds,
\* fails because the payment vault holds less than the amount to transfer
C2_PaymentVaultCovers ==
    /\ vault_payment_token >= 0
    /\ \A u \in Users : \A i \in 1..Len(committed[u].bins) :
          \A r \in 1..RemainingRefund(committed[u].bins[i]) :
              claim_err(u, u, committed[u].bins[i].bin_id, 0, r) # "InsufficientFunds"
    /\ ~(/\ auction.initialized
         /\ withdraw_funds_err(auction.authority) = "InsufficientFunds"
         /\ vault_payment_token
              < calculate_total_withdraw_amounts(auction.bins).total_payment_tokens)

(***************************************************************************)
(* C5                                                                      *)
(***************************************************************************)
\* C5: no commit is accepted on a signed payload on which an earlier commit was
\* already accepted
C5_NoReplay == replayed = {}

(***************************************************************************)
(* C6                                                                      *)
(***************************************************************************)
funds_withdrawn == auction.unsold_sale_tokens_and_effective_payment_tokens_withdrawn

\* C6 as stated: once the flag is set, a withdraw_funds call of the authority fails
\* with DoubleFundsWithdrawal
C6_LaterCallsFailDoubleFundsWithdrawal ==
    funds_withdrawn => withdraw_funds_err(auction.authority) = "DoubleFundsWithdrawal"

\* C6 amended: the flag is set only by a successful withdraw_funds and never
\* cleared; once it is set no withdraw_funds call succeeds or changes anything; the
\* error is DoubleFundsWithdrawal when the authority calls and withdraw_funds is not
\* paused (a paused call fails with OperationPaused, another caller's with
\* ConstraintHasOne)
C6_WithdrawFundsOneShot ==
    /\ [](funds_withdrawn =>
            /\ \A caller \in AdminCallers : withdraw_funds_err(caller) # "Ok"
            /\ (~is_paused(auction.paused_operations, PAUSE_AUCTION_WITHDRAW_FUNDS)
                  => withdraw_funds_err(auction.authority) = "DoubleFundsWithdrawal"))
    /\ [][(funds_withdrawn => funds_withdrawn')
          /\ ((~funds_withdrawn /\ funds_withdrawn') => withdraw_funds(auction.authority))
          /\ (funds_withdrawn =>
                \A caller \in AdminCallers :
                    withdraw_funds(caller) => UNCHANGED progvars)]_vars

\* the withdrawal has happened and the authority, not paused, calls again
C6_Witness ==
    /\ funds_withdrawn
    /\ ~is_paused(auction.paused_operations, PAUSE_AUCTION_WITHDRAW_FUNDS)
    /\ withdraw_funds_err(auction.authority) = "DoubleFundsWithdrawal"

(***************************************************************************)
(* C7                                                                      *)
(***************************************************************************)
\* amounts the claim calls are drawn from: no entitlement reaches MaxRaised
ClaimAmounts == 0..MaxRaised

\* sale_token_to_claim or payment_token_to_refund is above the entitlement of the
\* entry of user u at index i, under the bin's current raised, price and cap, less
\* what the entry has been paid
ExcessiveAsStated(u, i, sale_token_to_claim, payment_token_to_refund) ==
    LET cb == committed[u].bins[i]
        e == EntitlementOf(cb, auction.bins)
    IN  \/ sale_token_to_claim > e.sale_tokens - cb.sale_token_claimed
        \/ payment_token_to_refund > e.refund_payment_tokens - cb.payment_token_refunded

\* the same with the remaining entitlement floored at zero
Excessive(u, i, sale_token_to_claim, payment_token_to_refund) ==
    LET cb == committed[u].bins[i]
        e == EntitlementOf(cb, auction.bins)
        Floor0(n) == IF n >= 0 THEN n ELSE 0
    IN  \/ sale_token_to_claim > Floor0(e.sale_tokens - cb.sale_token_claimed)
        \/ payment_token_to_refund
              > Floor0(e.refund_payment_tokens - cb.payment_token_refunded)

\* C7 as stated: a claim of an excessive amount fails with InvalidClaimAmount
C7_ExcessiveClaimInvalidClaimAmount ==
    \A u \in Users : \A i \in 1..Len(committed[u].bins) :
        \A s \in ClaimAmounts, r \in ClaimAmounts :
            ExcessiveAsStated(u, i, s, r)
                => claim_err(u, u, committed[u].bins[i].bin_id, s, r) = "InvalidClaimAmount"

\* C7 amended: a claim asking more than the remaining entitlement (the entitlement
\* less what was paid, floored at zero), even in only one of the two amounts, never
\* succeeds, so that the runtime rolls it back and nothing changes; its error is
\* InvalidClaimAmount when claim is not paused, the claim period has started and
\* the bin has raised something (else OperationPaused, OutOfClaimPeriod,
\* DivisionByZero come first); and no step raises what an entry has been paid by
\* more than its remaining entitlement
C7_ExcessiveClaimRejected ==
    /\ [](\A u \in Users : \A i \in 1..Len(committed[u].bins) :
            \A s \in ClaimAmounts, r \in ClaimAmounts :
                LET bin_id == committed[u].bins[i].bin_id
                IN  Excessive(u, i, s, r)
                      => /\ claim_err(u, u, bin_id, s, r) # "Ok"
                         /\ (/\ ~is_paused(auction.paused_operations, PAUSE_AUCTION_CLAIM)
                             /\ auction.claim_start_time <= now
                             /\ auction.bins[bin_id + 1].payment_token_raised > 0)
                              => claim_err(u, u, bin_id, s, r) = "InvalidClaimAmount")
    /\ [][\A u \in Users : \A i \in 1..Len(committed[u].bins) :
            (committed'[u] # committed[u] /\ i <= Len(committed'[u].bins))
                => ~Excessive(u, i,
                              committed'[u].bins[i].sale_token_claimed
                                - committed[u].bins[i].sale_token_claimed,
                              committed'[u].bins[i].payment_token_refunded
                                - committed[u].bins[i].payment_token_refunded)]_vars

\* an entry with both a sale and a refund entitlement left, where asking one sale
\* token too many together with an admissible refund fails with InvalidClaimAmount
C7_Witness ==
    \E u \in Users : \E i \in 1..Len(committed[u].bins) :
        LET cb == committed[u].bins[i]
            e == EntitlementOf(cb, auction.bins)
        IN  /\ e.err = "Ok"
            /\ e.sale_tokens - cb.sale_token_claimed = 1
            /\ e.refund_payment_tokens - cb.payment_token_refunded >= 1
            /\ cb.sale_token_claimed + cb.payment_token_refunded > 0
            /\ claim_err(u, u, cb.bin_id, 2, 1) = "InvalidClaimAmount"
            /\ claim_err(u, u, cb.bin_id, 1, 1) = "Ok"

(***************************************************************************)
(* C8                                                                      *)
(***************************************************************************)
RECURSIVE SumCommitted(_, _)
\* the sum over the users of us of what their Committed account holds in bin_id
SumCommitted(us, bin_id) ==
    IF us = {} THEN 0
    ELSE LET u == CHOOSE x \in us : TRUE
         IN  committed_in(committed[u].bins, bin_id) + SumCommitted(us \ {u}, bin_id)

\* C8 as stated: per bin, the users' committed amounts add up to payment_token_raised
C8_CommittedSumsToRaised ==
    \A b \in 1..Len(auction.bins) :
        SumCommitted(Users, b - 1) = auction.bins[b].payment_token_raised

\* C8 amended: per bin, payment_token_raised is the sum of the committed amounts of
\* the existing Committed accounts plus those of the accounts claim has closed (a
\* closure removes the entries and leaves payment_token_raised as it is)
C8_CommittedAndClosedSumToRaised ==
    \A b \in 1..Len(auction.bins) :
        SumCommitted(Users, b - 1) + closed_committed[b - 1]
            = auction.bins[b].payment_token_raised

\* one user's account has been closed after a full claim while the other user still
\* holds an entry in the same bin
C8_Witness ==
    \E b \in 1..Len(auction.bins) :
        /\ closed_committed[b - 1] > 0
        /\ SumCommitted(Users, b - 1) > 0

(***************************************************************************)
(* C9                                                                      *)
(***************************************************************************)
\* C9: every entry of every Committed account has been paid no more than the
\* entitlement calculate_claimable_amounts gives it under the bin's current raised,
\* price and cap: sale_token_claimed <= sale_tokens and
\* payment_token_refunded <= refund_payment_tokens
C9_PaidWithinEntitlement ==
    \A u \in Users : \A i \in 1..Len(committed[u].bins) :
        LET cb == committed[u].bins[i]
            e == EntitlementOf(cb, auction.bins)
        IN  e.err = "Ok"
              => /\ cb.sale_token_claimed <= e.sale_tokens
                 /\ cb.payment_token_refunded <= e.refund_payment_tokens

(***************************************************************************)
(* C10                                                                     *)
(***************************************************************************)
\* the bit of a one-bit flag is set in the mask
HasBit(mask, flag) == (mask \div flag) % 2 = 1

\* C10 as stated: every call of a gated operation, whoever signs it and whatever
\* accounts and arguments it passes, fails with OperationPaused exactly when the
\* operation's own bit is set in the mask
C10_OperationPausedIffOwnBit ==
    LET mask == auction.paused_operations
    IN  auction.initialized =>
          /\ \A user \in Users, shape \in CommitShapes :
                \A a \in AuthChoices(user, shape[1], shape[2]) :
                    (commit_err(user, shape[1], shape[2], a[1], a[2], a[3]) = "OperationPaused")
                        <=> HasBit(mask, PAUSE_AUCTION_COMMIT)
          /\ \A who \in AccountChoices, shape \in DecreaseShapes :
                (decrease_commit_err(who[1], who[2], shape[1], shape[2]) = "OperationPaused")
                    <=> HasBit(mask, PAUSE_AUCTION_COMMIT)
          /\ \A who \in AccountChoices, shape \in ClaimShapes :
                (claim_err(who[1], who[2], shape[1], shape[2], shape[3]) = "OperationPaused")
                    <=> HasBit(mask, PAUSE_AUCTION_CLAIM)
          /\ \A caller \in AdminCallers :
                /\ (withdraw_funds_err(caller) = "OperationPaused")
                      <=> HasBit(mask, PAUSE_AUCTION_WITHDRAW_FUNDS)
                /\ (withdraw_fees_err(caller) = "OperationPaused")
                      <=> HasBit(mask, PAUSE_AUCTION_WITHDRAW_FEES)
          /\ \A c \in SetPriceChoices :
                (set_price_err(c[1], c[2], c[3]) = "OperationPaused")
                    <=> HasBit(mask, PAUSE_AUCTION_UPDATION)

\* C10 amended: a call that passes the account constraints of its context (the
\* signer is the auction's authority for withdraw_funds, withdraw_fees and
\* set_price; the Committed account exists for claim, and exists and is the
\* signer's for decrease_commit; commit has no such constraint) fails with
\* OperationPaused exactly when the operation's own bit is set, whatever its other
\* arguments and whatever the other bits; a call that does not pass them fails with
\* the constraint's error whatever the mask; and a call of an operation whose bit
\* is set changes no state
C10_PauseGateAfterAccountConstraints ==
    /\ [](LET mask == auction.paused_operations
          IN  auction.initialized =>
                /\ \A user \in Users, shape \in CommitShapes :
                      \A a \in AuthChoices(user, shape[1], shape[2]) :
                          (commit_err(user, shape[1], shape[2], a[1], a[2], a[3])
                              = "OperationPaused")
                            <=> HasBit(mask, PAUSE_AUCTION_COMMIT)
                /\ \A who \in AccountChoices, shape \in DecreaseShapes :
                      LET acct == committed_account_err(who[1], who[2], TRUE)
                          e == decrease_commit_err(who[1], who[2], shape[1], shape[2])
                      IN  IF acct # "Ok" THEN e = acct
                          ELSE (e = "OperationPaused")
                                 <=> HasBit(mask, PAUSE_AUCTION_COMMIT)
                /\ \A who \in AccountChoices, shape \in ClaimShapes :
                      LET acct == committed_account_err(who[1], who[2], FALSE)
                          e == claim_err(who[1], who[2], shape[1], shape[2], shape[3])
                      IN  IF acct # "Ok" THEN e = acct
                          ELSE (e = "OperationPaused")
                                 <=> HasBit(mask, PAUSE_AUCTION_CLAIM)
                /\ \A caller \in AdminCallers :
                      IF caller # auction.authority
                      THEN /\ withdraw_funds_err(caller) = "ConstraintHasOne"
                           /\ withdraw_fees_err(caller) = "ConstraintHasOne"
                      ELSE /\ (withdraw_funds_err(caller) = "OperationPaused")
                                 <=> HasBit(mask, PAUSE_AUCTION_WITHDRAW_FUNDS)
                           /\ (withdraw_fees_err(caller) = "OperationPaused")
                                 <=> HasBit(mask, PAUSE_AUCTION_WITHDRAW_FEES)
                /\ \A c \in SetPriceChoices :
                      IF c[1] # auction.authority
                      THEN set_price_err(c[1], c[2], c[3]) = "ConstraintHasOne"
                      ELSE (set_price_err(c[1], c[2], c[3]) = "OperationPaused")
                             <=> HasBit(mask, PAUSE_AUCTION_UPDATION))
    /\ [][LET mask == auction.paused_operations
          IN  \/ UNCHANGED progvars
              \/ /\ (HasBit(mask, PAUSE_AUCTION_COMMIT) =>
                     /\ \A user \in Users, shape \in CommitShapes :
                           \A a \in AuthChoices(user, shape[1], shape[2]) :
                               commit(user, shape[1], shape[2], a[1], a[2], a[3])
                                   => UNCHANGED progvars
                     /\ \A who \in AccountChoices, shape \in DecreaseShapes :
                           decrease_commit(who[1], who[2], shape[1], shape[2])
                               => UNCHANGED progvars)
                  /\ (HasBit(mask, PAUSE_AUCTION_CLAIM) =>
                        \A who \in AccountChoices, shape \in ClaimShapes :
                            claim(who[1], who[2], shape[1], shape[2], shape[3])
                                => UNCHANGED progvars)
                  /\ (HasBit(mask, PAUSE_AUCTION_WITHDRAW_FUNDS) =>
                        \A caller \in AdminCallers :
                            withdraw_funds(caller) => UNCHANGED progvars)
                  /\ (HasBit(mask, PAUSE_AUCTION_WITHDRAW_FEES) =>
                        \A caller \in AdminCallers :
                            withdraw_fees(caller) => UNCHANGED progvars)
                  /\ (HasBit(mask, PAUSE_AUCTION_UPDATION) =>
                        \A c \in SetPriceChoices :
                            set_price(c[1], c[2], c[3]) => UNCHANGED progvars)]_vars

\* only the commit bit is set, in the claim period: the commit and the
\* decrease_commit of a user holding an entry fail with OperationPaused although
\* the commit period is over, while the same user's claim and the authority's
\* withdraw_funds are accepted
C10_Witness ==
    /\ auction.initialized
    /\ auction.paused_operations = PAUSE_AUCTION_COMMIT
    /\ now > auction.commit_end_time
    /\ \E u \in Users :
          /\ committed_account_err(u, u, TRUE) = "Ok"
          /\ commit_err(u, 0, 2, MaxTime, None, None) = "OperationPaused"
          /\ decrease_commit_err(u, u, 0, 1) = "OperationPaused"
          /\ claim_err(u, u, 0, 2, 0) = "Ok"
    /\ withdraw_funds_err(auction.authority) = "Ok"

(***************************************************************************)
(* C11                                                                     *)
(***************************************************************************)
\* C11: emergency_control replaces the whole mask: after a call of the authority
\* the mask holds exactly the bits whose flag in params is true and no other bit,
\* whatever the mask was before, and nothing else of the auction changes; a call of
\* any other signer is refused with OnlyLaunchpadAdmin and changes nothing; and the
\* mask never changes in a step that is not a call of the authority
C11_MaskReplacedByAuthorityOnly ==
    /\ [](auction.initialized =>
            \A caller \in AdminCallers :
                (emergency_control_err(caller) = "Ok") <=> (caller = auction.authority))
    /\ [][\A caller \in AdminCallers, params \in PauseChoices :
            emergency_control(caller, params) =>
                IF caller # auction.authority THEN UNCHANGED vars
                ELSE /\ HasBit(auction'.paused_operations, PAUSE_AUCTION_COMMIT)
                          <=> params.pause_auction_commit
                     /\ HasBit(auction'.paused_operations, PAUSE_AUCTION_CLAIM)
                          <=> params.pause_auction_claim
                     /\ HasBit(auction'.paused_operations, PAUSE_AUCTION_WITHDRAW_FEES)
                          <=> params.pause_auction_withdraw_fees
                     /\ HasBit(auction'.paused_operations, PAUSE_AUCTION_WITHDRAW_FUNDS)
                          <=> params.pause_auction_withdraw_funds
                     /\ HasBit(auction'.paused_operations, PAUSE_AUCTION_UPDATION)
                          <=> params.pause_auction_updation
                     /\ auction'.paused_operations < 2 * PAUSE_AUCTION_UPDATION
                     /\ auction' = [auction EXCEPT
                                      !.paused_operations = auction'.paused_operations]
                     /\ UNCHANGED <<committed, vault_payment_token, vault_sale_token>>]_vars
    /\ [][auction'.paused_operations # auction.paused_operations =>
            \E params \in PauseChoices : emergency_control(auction.authority, params)]_vars

\* the mask holds the claim and the withdraw-fees bit only, which a single call of
\* the authority put there, and another signer's call is refused
C11_Witness ==
    /\ auction.initialized
    /\ auction.paused_operations = PAUSE_AUCTION_CLAIM + PAUSE_AUCTION_WITHDRAW_FEES
    /\ emergency_control_err("u1") = "OnlyLaunchpadAdmin"

(***************************************************************************)
(* C12                                                                     *)
(***************************************************************************)
\* the other user
Other(user) == CHOOSE x \in Users : x # user

\* <<expiry, message signed>> of the signed payloads presented to the gate by user
\* for a commit of amount to bin_id: the canonical payload of the call at the
\* record's nonce, with an expiry from 0 to MaxTime; the same for another user,
\* bin, amount, nonce or expiry
GatePayloads(user, bin_id, amount) ==
    LET n == committed[user].nonce
    IN  {<<e, Canonical(user, bin_id, amount, n, e)>> : e \in 0..MaxTime}
        \cup {<<MaxTime, Canonical(Other(user), bin_id, amount, n, MaxTime)>>,
              <<MaxTime, Canonical(user, bin_id + 1, amount, n, MaxTime)>>,
              <<MaxTime, Canonical(user, bin_id, amount + 1, n, MaxTime)>>,
              <<MaxTime, Canonical(user, bin_id, amount, n + 1, MaxTime)>>,
              <<MaxTime, Canonical(user, bin_id, amount, n, 0)>>}

\* the keys a presented signature is made with
GateSigners == {WhitelistKey, "u1", "u2"}

\* the commit call of user reaches the extension gates: it passes the pause, window,
\* amount and bin checks and is neither the custody's nor custody-authorized
ReachesGates(user, bin_id, amount) ==
    /\ auction.initialized
    /\ user # auction.custody
    /\ ~is_paused(auction.paused_operations, PAUSE_AUCTION_COMMIT)
    /\ auction.commit_start_time <= now /\ now <= auction.commit_end_time
    /\ amount > 0
    /\ bin_id < Len(auction.bins)

current_nonce(user) == committed[user].nonce

\* C13: the nonce of every user starts at 0 and never decreases; a step changes it
\* only by adding exactly 1, and only when it is a successful commit of that user
\* (the user's committed total grows); every successful commit adds 1; so failed
\* commits, decrease_commit, claim, the withdrawals and set_price leave it as it is
C13_NonceMonotonic ==
    /\ \A user \in Users : current_nonce(user) = 0
    /\ [][\A user \in Users :
            LET grown == total_payment_committed(committed'[user].bins)
                           > total_payment_committed(committed[user].bins)
            IN  /\ current_nonce(user)' >= current_nonce(user)
                /\ (current_nonce(user)' # current_nonce(user))
                      => (grown /\ current_nonce(user)' = current_nonce(user) + 1)
                /\ grown => current_nonce(user)' = current_nonce(user) + 1]_vars

(***************************************************************************)
(* C14                                                                     *)
(***************************************************************************)
\* the sum of what user has committed across the bins
TotalOf(user) == total_payment_committed(committed[user].bins)

\* <<expiry, sysvar_instructions>> of the commit calls made without a custody
\* authority account
PlainAuthChoices(user, bin_id, amount) ==
    {<<a[1], a[3]>> : a \in {x \in AuthChoices(user, bin_id, amount) : x[2] = None}}

\* C14: with a cap configured, a commit that is neither the custody's nor custody
\* authorized succeeds only if the user's committed total plus the amount is within
\* the cap, and one that reaches the gate above the cap fails with
\* CommitCapExceeded whatever signature it carries; with no cap configured no
\* commit fails with CommitCapExceeded; and a step takes a user's total above the
\* cap only if it is a commit of the custody itself or one presenting the custody
\* authority, so that a user who never does stays within the cap
C14_CommitCapGate ==
    /\ [](\A user \in Users, shape \in CommitShapes :
            \A a \in PlainAuthChoices(user, shape[1], shape[2]) :
                LET e == commit_err(user, shape[1], shape[2], a[1], None, a[2])
                    cap == auction.extensions.commit_cap_per_user
                IN  IF ~auction.initialized \/ user = auction.custody THEN TRUE
                    ELSE IF IsSome(cap)
                    THEN /\ (e = "Ok") => TotalOf(user) + shape[2] <= Unwrap(cap)
                         /\ (/\ ReachesGates(user, shape[1], shape[2])
                             /\ TotalOf(user) + shape[2] > Unwrap(cap))
                               => e = "CommitCapExceeded"
                    ELSE e # "CommitCapExceeded")
    /\ [][\A user \in Users :
            LET cap == auction.extensions.commit_cap_per_user
            IN  (/\ auction.initialized
                 /\ IsSome(cap)
                 /\ TotalOf(user)' > TotalOf(user)
                 /\ TotalOf(user)' > Unwrap(cap))
                  => \/ user = auction.custody
                     \/ \E shape \in CommitShapes :
                           \E a \in AuthChoices(user, shape[1], shape[2]) :
                               /\ a[2] = Some(auction.custody)
                               /\ commit(user, shape[1], shape[2], a[1], a[2], a[3])]_vars

\* a user other than the custody holds 2 under a cap of 3: a further commit of 2
\* carrying a valid whitelist signature fails with CommitCapExceeded, one of 1
\* is accepted
C14_Witness ==
    \E user \in Users :
        LET sig(amount) == Some(Ed25519Ix(WhitelistKey,
                                Canonical(user, 0, amount, current_nonce(user), MaxTime)))
        IN  /\ auction.initialized
            /\ user # auction.custody
            /\ auction.extensions.commit_cap_per_user = Some(3)
            /\ TotalOf(user) = 2
            /\ commit_err(user, 0, 2, MaxTime, None, sig(2)) = "CommitCapExceeded"
            /\ commit_err(user, 0, 1, MaxTime, None, sig(1)) = "Ok"

(***************************************************************************)
(* C15                                                                     *)
(***************************************************************************)
\* the outcome of the checks commit makes before the custody check: pause, commit
\* window (both ends included), amount, bin
BasicCommitOutcome(bin_id, amount) ==
    IF HasBit(auction.paused_operations, PAUSE_AUCTION_COMMIT) THEN "OperationPaused"
    ELSE IF now < auction.commit_start_time \/ now > auction.commit_end_time
    THEN "OutOfCommitmentPeriod"
    ELSE IF amount = 0 THEN "InvalidCommitmentAmount"
    ELSE IF bin_id >= Len(auction.bins) THEN "InvalidBinId"
    ELSE "Ok"

\* C15: a commit of the auction's custody is subject to the pause, window, amount
\* and bin checks and to nothing else: whatever signature or custody authority it
\* presents or omits, whether a whitelist or a cap is configured, and whatever the
\* custody has committed already
C15_CustodySkipsGates ==
    auction.initialized =>
        \A shape \in CommitShapes :
            \A a \in AuthChoices(auction.custody, shape[1], shape[2])
                       \cup {<<0, None, None>>, <<0, Some("u1"), None>>} :
                commit_err(auction.custody, shape[1], shape[2], a[1], a[2], a[3])
                    = BasicCommitOutcome(shape[1], shape[2])

\* under a whitelist and a cap of 3 the custody has committed 4, and its next
\* commit, unsigned, is accepted
C15_Witness ==
    /\ auction.initialized
    /\ auction.custody \in Users
    /\ is_whitelist_enabled(auction.extensions)
    /\ auction.extensions.commit_cap_per_user = Some(3)
    /\ TotalOf(auction.custody) = 4
    /\ commit_err(auction.custody, 0, 1, 0, None, None) = "Ok"

(***************************************************************************)
(* C16                                                                     *)
(***************************************************************************)
\* the instructions found at index 0 of the transaction of a commit of user: none
\* readable as an account, one of another program, an Ed25519 verification by one
\* of GateSigners of one of GatePayloads; each as <<expiry, sysvar_instructions>>
GateInstructions(user, bin_id, amount) ==
    {<<MaxTime, None>>, <<MaxTime, Some(OtherIx("other_program"))>>}
    \cup {<<p[1], Some(Ed25519Ix(k, p[2]))>> :
             p \in GatePayloads(user, bin_id, amount), k \in GateSigners}

\* C16: for a caller who is not the custody and passes the pause, window, amount
\* and bin checks: presenting a custody authority other than the auction's custody
\* fails with InvalidCustodyAuthority; presenting the auction's custody together
\* with an Ed25519 instruction carrying the custody's key and the canonical payload
\* of this call at the record's nonce with now <= expiry is accepted whatever the
\* cap and the whitelist; and any other commit presenting the custody is accepted
\* only if it passes the gates themselves (within the cap, no whitelist configured)
C16_CustodySignatureGate ==
    auction.initialized =>
      \A user \in Users \ {auction.custody}, shape \in CommitShapes :
        BasicCommitOutcome(shape[1], shape[2]) = "Ok" =>
          \A ca \in GateSigners, i \in GateInstructions(user, shape[1], shape[2]) :
            LET e == commit_err(user, shape[1], shape[2], i[1], Some(ca), i[2])
                valid == /\ IsSome(i[2])
                         /\ Unwrap(i[2]).kind = "ed25519"
                         /\ Unwrap(i[2]).public_key = auction.custody
                         /\ Unwrap(i[2]).message
                              = Canonical(user, shape[1], shape[2], current_nonce(user), i[1])
                         /\ now <= i[1]
                within_cap ==
                    ~IsSome(auction.extensions.commit_cap_per_user)
                    \/ TotalOf(user) + shape[2]
                         <= Unwrap(auction.extensions.commit_cap_per_user)
            IN  IF ca # auction.custody THEN e = "InvalidCustodyAuthority"
                ELSE IF valid THEN e = "Ok"
                ELSE (e = "Ok") => (/\ within_cap
                                    /\ ~is_whitelist_enabled(auction.extensions)
                                    /\ i[2] = None)

\* under a whitelist and a cap of 3 a user who is not the custody holds 2: a commit
\* of 2 signed by the custody for this call is accepted, the same signature at the
\* previous nonce, the whitelist authority's signature presented as the custody's
\* and a custody authority that is not the auction's are refused
C16_Witness ==
    \E user \in Users \ {auction.custody} :
        LET n == current_nonce(user)
            sig(k, nonce) == Some(Ed25519Ix(k, Canonical(user, 0, 2, nonce, MaxTime)))
        IN  /\ auction.initialized
            /\ is_whitelist_enabled(auction.extensions)
            /\ auction.extensions.commit_cap_per_user = Some(3)
            /\ TotalOf(user) = 2
            /\ n > 0
            /\ commit_err(user, 0, 2, MaxTime, Some(auction.custody),
                          sig(auction.custody, n)) = "Ok"
            /\ commit_err(user, 0, 2, MaxTime, Some(auction.custody),
                          sig(auction.custody, n - 1)) = "PayloadMismatch"
            /\ commit_err(user, 0, 2, MaxTime, Some(auction.custody),
                          sig(WhitelistKey, n)) = "WrongWhitelistAuthority"
            /\ commit_err(user, 0, 2, MaxTime, Some(user),
                          sig(user, n)) = "InvalidCustodyAuthority"

(***************************************************************************)
(* C17                                                                     *)
(***************************************************************************)
\* C17: a commit succeeds only if commit_start_time <= now <= commit_end_time, the
\* amount is positive and bin_id is the index of a bin; a call that is not paused
\* fails with OutOfCommitmentPeriod outside the window, else with
\* InvalidCommitmentAmount for amount 0, else with InvalidBinId for an unknown
\* bin, whoever calls and whatever authorization is presented, and with none of
\* these four errors otherwise; and no step raises a user's committed total outside
\* the window
C17_CommitBasicChecks ==
    /\ [](auction.initialized =>
            \A user \in Users, shape \in CommitShapes :
                \A a \in AuthChoices(user, shape[1], shape[2]) :
                    LET e == commit_err(user, shape[1], shape[2], a[1], a[2], a[3])
                        b == BasicCommitOutcome(shape[1], shape[2])
                    IN  /\ (e = "Ok") =>
                              /\ auction.commit_start_time <= now
                              /\ now <= auction.commit_end_time
                              /\ shape[2] > 0
                              /\ shape[1] < Len(auction.bins)
                        /\ (b # "Ok") => (e = b)
                        /\ (b = "Ok") =>
                              e \notin {"OperationPaused", "OutOfCommitmentPeriod",
                                        "InvalidCommitmentAmount", "InvalidBinId"})
    /\ [][\A user \in Users :
            TotalOf(user)' > TotalOf(user)
                => /\ auction.commit_start_time <= now
                   /\ now <= auction.commit_end_time]_vars

\* at the last instant of the commit window a further commit of 1 to bin 0 by a
\* user who has committed is accepted, one of 0 fails with InvalidCommitmentAmount and one to a
\* bin that does not exist with InvalidBinId
C17_Witness ==
    \E user \in Users :
        /\ auction.initialized
        /\ now = auction.commit_end_time
        /\ TotalOf(user) > 0
        /\ commit_err(user, 0, 1, MaxTime, None, None) = "Ok"
        /\ commit_err(user, 0, 0, MaxTime, None, None) = "InvalidCommitmentAmount"
        /\ commit_err(user, MaxBins, 1, MaxTime, None, None) = "InvalidBinId"

(***************************************************************************)
(* C18                                                                     *)
(***************************************************************************)
\* what a step that raises the committed total of user by d in bin b leaves alone
\* and changes: the user's entry of bin b and the bin's payment_token_raised grow
\* by d, nothing else of the bins, of the user's entries or of the other users'
\* accounts changes, nor the fee totals
CommitFrame(user, b, d) ==
    /\ committed_in(committed'[user].bins, b) = committed_in(committed[user].bins, b) + d
    /\ auction'.bins[b + 1] = [auction.bins[b + 1] EXCEPT !.payment_token_raised = @ + d]
    /\ \A o \in BinIds \ {b} :
          /\ committed_in(committed'[user].bins, o) = committed_in(committed[user].bins, o)
          /\ o < Len(auction.bins) => auction'.bins[o + 1] = auction.bins[o + 1]
    /\ \A i \in 1..Len(committed[user].bins) :
          /\ committed'[user].bins[i].bin_id = committed[user].bins[i].bin_id
          /\ committed'[user].bins[i].sale_token_claimed
               = committed[user].bins[i].sale_token_claimed
          /\ committed'[user].bins[i].payment_token_refunded
               = committed[user].bins[i].payment_token_refunded
    /\ \A i \in (Len(committed[user].bins) + 1)..Len(committed'[user].bins) :
          /\ committed'[user].bins[i].sale_token_claimed = 0
          /\ committed'[user].bins[i].payment_token_refunded = 0
    /\ \A other \in Users \ {user} : committed'[other] = committed[other]
    /\ auction'.total_fees_collected = auction.total_fees_collected
    /\ auction'.total_fees_withdrawn = auction.total_fees_withdrawn
    /\ vault_payment_token' = vault_payment_token + d
    /\ vault_sale_token' = vault_sale_token

\* C18: a successful commit (the one step that raises a user's committed total)
\* changes that user's entry of one bin and that bin's payment_token_raised by the
\* amount and nothing else, and adds 1 to total_participants exactly when no commit
\* of the user was accepted before; and total_participants is the number of users
\* of whom a commit has been accepted
C18_CommitFrameAndParticipants ==
    /\ [](auction.total_participants = Cardinality(participants))
    /\ [][\A user \in Users :
            TotalOf(user)' > TotalOf(user) =>
                /\ \E b \in BinIds : CommitFrame(user, b, TotalOf(user)' - TotalOf(user))
                /\ auction'.total_participants
                     = auction.total_participants
                         + (IF user \in participants THEN 0 ELSE 1)]_vars

(***************************************************************************)
(* C19                                                                     *)
(***************************************************************************)
\* what a decrease_commit of d from the entry of user in bin b changes and leaves
\* alone
DecreaseFrame(user, b, d) ==
    LET i == find_bin(committed[user].bins, b)
    IN  /\ i # 0
        /\ d <= committed[user].bins[i].payment_token_committed
        /\ committed' = [committed EXCEPT ![user].bins[i].payment_token_committed = @ - d]
        /\ auction' = [auction EXCEPT !.bins[b + 1].payment_token_raised = @ - d]
        /\ vault_payment_token' = vault_payment_token - d
        /\ vault_sale_token' = vault_sale_token

\* C19: decrease_commit is accepted only on the caller's own record, within
\* [commit_start_time, commit_end_time], for a positive amount, for a bin the record
\* has an entry in and for no more than the entry holds; a step that lowers the
\* committed total of a record that stays open lowers one entry and its bin's
\* payment_token_raised by the same positive amount within the window, pays that
\* amount out of the payment vault and changes nothing else (claimed and refunded
\* counters, nonce, the other entries, bins and users); and no committed or raised
\* counter is ever negative
C19_DecreaseCommit ==
    /\ [](/\ \A b \in 1..Len(auction.bins) : auction.bins[b].payment_token_raised >= 0
          /\ \A user \in Users : \A i \in 1..Len(committed[user].bins) :
                committed[user].bins[i].payment_token_committed >= 0
          /\ \A who \in AccountChoices, shape \in DecreaseShapes :
                decrease_commit_err(who[1], who[2], shape[1], shape[2]) = "Ok" =>
                    LET i == find_bin(committed[who[2]].bins, shape[1])
                    IN  /\ who[1] = who[2]
                        /\ auction.commit_start_time <= now
                        /\ now <= auction.commit_end_time
                        /\ shape[2] > 0
                        /\ i # 0
                        /\ shape[2] <= committed[who[2]].bins[i].payment_token_committed)
    /\ [][\A user \in Users :
            (TotalOf(user)' < TotalOf(user) /\ committed'[user].user # NoKey) =>
                /\ auction.commit_start_time <= now
                /\ now <= auction.commit_end_time
                /\ \E b \in BinIds :
                      DecreaseFrame(user, b, TotalOf(user) - TotalOf(user)')]_vars

\* a record whose entry of bin 0 has been decreased to nothing, within the commit
\* window: a further decrease of 1 is refused for exceeding the entry
C19_Witness ==
    \E user \in Users :
        /\ find_bin(committed[user].bins, 0) # 0
        /\ committed_in(committed[user].bins, 0) = 0
        /\ decrease_commit_err(user, user, 0, 1) = "InvalidCommitmentAmount"

(***************************************************************************)
(* C20                                                                     *)
(***************************************************************************)
\* C20: a claim on an existing record, not paused, fails with OutOfClaimPeriod
\* before claim_start_time, else with InvalidClaimAmount when both amounts are 0,
\* else with Unauthorized when the caller is not the record's user, and is accepted
\* only past these three checks; a step that changes the counters of a record that
\* stays open happens at or after claim_start_time, raises the entry's
\* sale_token_claimed and its bin's sale_token_claimed by one same amount and the
\* entry's payment_token_refunded by the amount that leaves the payment vault, at
\* least one of the two being positive; a bin's sale_token_claimed never decreases,
\* and grows only at or after claim_start_time
C20_ClaimChecksAndCounters ==
    /\ [](auction.initialized =>
            \A who \in AccountChoices, shape \in ClaimShapes :
                LET e == claim_err(who[1], who[2], shape[1], shape[2], shape[3])
                    reached == /\ committed_account_err(who[1], who[2], FALSE) = "Ok"
                               /\ ~HasBit(auction.paused_operations, PAUSE_AUCTION_CLAIM)
                IN  /\ (e = "Ok") => /\ now >= auction.claim_start_time
                                     /\ (shape[2] # 0 \/ shape[3] # 0)
                                     /\ committed[who[2]].user = who[1]
                    /\ reached =>
                          IF now < auction.claim_start_time THEN e = "OutOfClaimPeriod"
                          ELSE IF shape[2] = 0 /\ shape[3] = 0 THEN e = "InvalidClaimAmount"
                          ELSE IF committed[who[2]].user # who[1] THEN e = "Unauthorized"
                          ELSE e \notin {"OutOfClaimPeriod", "Unauthorized"})
    /\ [][\A user \in Users : \A i \in 1..Len(committed[user].bins) :
            (/\ committed'[user].user # NoKey
             /\ \/ committed'[user].bins[i].sale_token_claimed
                     # committed[user].bins[i].sale_token_claimed
                \/ committed'[user].bins[i].payment_token_refunded
                     # committed[user].bins[i].payment_token_refunded) =>
                LET b == committed[user].bins[i].bin_id
                    s == committed'[user].bins[i].sale_token_claimed
                           - committed[user].bins[i].sale_token_claimed
                    r == committed'[user].bins[i].payment_token_refunded
                           - committed[user].bins[i].payment_token_refunded
                IN  /\ now >= auction.claim_start_time
                    /\ s >= 0 /\ r >= 0 /\ s + r > 0
                    /\ auction'.bins[b + 1].sale_token_claimed
                         = auction.bins[b + 1].sale_token_claimed + s
                    /\ vault_payment_token' = vault_payment_token - r
                    /\ committed' =
                         [committed EXCEPT ![user].bins[i].sale_token_claimed = @ + s,
                                           ![user].bins[i].payment_token_refunded = @ + r]]_vars
    /\ [][auction.initialized =>
            \A b \in 1..Len(auction.bins) :
                /\ auction'.bins[b].sale_token_claimed >= auction.bins[b].sale_token_claimed
                /\ auction'.bins[b].sale_token_claimed > auction.bins[b].sale_token_claimed
                      => now >= auction.claim_start_time]_vars

\* in the claim period a record is open that has been paid a part of its sale
\* tokens and has more to claim: its user's claim is accepted, a claim of nothing
\* fails with InvalidClaimAmount and the other user's claim on it with Unauthorized
C20_Witness ==
    \E user \in Users :
        /\ auction.initialized
        /\ now >= auction.claim_start_time
        /\ find_bin(committed[user].bins, 0) # 0
        /\ committed[user].bins[find_bin(committed[user].bins, 0)].sale_token_claimed = 1
        /\ claim_err(user, user, 0, 1, 0) = "Ok"
        /\ claim_err(user, user, 0, 0, 0) = "InvalidClaimAmount"
        /\ <<Other(user), user>> \in AccountChoices
        /\ claim_err(Other(user), user, 0, 1, 0) = "Unauthorized"

(***************************************************************************)
(* C21: the claim fee                                                      *)
(***************************************************************************)
\* one auction per fee policy init_auction accepts: none, a half, and a rate above
\* FEE_DENOMINATOR; a rate of 0 is refused
FeeInitChoices ==
    {InitParams(LAUNCHPAD_ADMIN, <<1, 1, 2>>, OneBin, "u1", NoExtensions),
     InitParams(LAUNCHPAD_ADMIN, <<1, 1, 2>>, OneBin, "u1", FeeOnly),
     InitParams(LAUNCHPAD_ADMIN, <<1, 1, 2>>, OneBin, "u1",
                [NoExtensions EXCEPT !.claim_fee_rate = Some(2 * FEE_DENOMINATOR)]),
     InitParams(LAUNCHPAD_ADMIN, <<1, 1, 2>>, OneBin, "u1",
                [NoExtensions EXCEPT !.claim_fee_rate = Some(0)])}
FeeCommitShapes == {<<0, 1>>, <<0, 2>>}
FeeDecreaseShapes == {<<0, 1>>}
FeeClaimShapes == {<<0, s, r>> : s \in 0..2, r \in 0..1}
FeeSetPriceChoices == {<<LAUNCHPAD_ADMIN, 0, 2>>}

NextFee ==
    \/ Tick
    \/ InitAuction(FeeInitChoices)
    \/ Commit(FeeCommitShapes)
    \/ DecreaseCommit(FeeDecreaseShapes)
    \/ Claim(FeeClaimShapes)
    \/ WithdrawFunds
    \/ WithdrawFees
    \/ SetPrice(FeeSetPriceChoices)
    \/ EmergencyControl(PauseAllOrNothing)

SpecFee == Init /\ [][NextFee]_vars

\* the fee of the claim fee policy the auction was created with
FeeOf(sale_amount) ==
    IF IsSome(auction.extensions.claim_fee_rate)
    THEN (sale_amount * Unwrap(auction.extensions.claim_fee_rate)) \div FEE_DENOMINATOR
    ELSE 0

\* C21: under every fee policy init_auction accepts, a successful claim of
\* sale_amount sends sale_amount - fee sale tokens to the user and adds exactly
\* fee = floor(sale_amount * fee_rate / 10000) to total_fees_collected, so that
\* what the user receives plus the fee is sale_amount; with no fee policy the
\* fee is 0 and total_fees_collected does not change
C21_ClaimFee ==
    [][\A who \in AccountChoices, shape \in FeeClaimShapes :
         (/\ auction.initialized
          /\ claim_err(who[1], who[2], shape[1], shape[2], shape[3]) = "Ok"
          /\ claim(who[1], who[2], shape[1], shape[2], shape[3])) =>
            LET sale_amount == shape[2]
                fee == FeeOf(sale_amount)
                sent == vault_sale_token - vault_sale_token'
            IN  /\ sent = sale_amount - fee
                /\ auction'.total_fees_collected = auction.total_fees_collected + fee
                /\ sent + fee = sale_amount
                /\ ~IsSome(auction.extensions.claim_fee_rate) =>
                      /\ fee = 0
                      /\ auction'.total_fees_collected = auction.total_fees_collected]_vars

(***************************************************************************)
(* C22: settlement                                                         *)
(***************************************************************************)
\* an entry of a record has nothing left to claim under the bins
FullySettled(cb, auction_bins) ==
    /\ cb.bin_id < Len(auction_bins)
    /\ LET c == EntitlementOf(cb, auction_bins)
       IN  /\ c.err = "Ok"
           /\ cb.sale_token_claimed >= c.sale_tokens
           /\ cb.payment_token_refunded >= c.refund_payment_tokens

AllSettled(committed_bins, auction_bins) ==
    \A i \in 1..Len(committed_bins) : FullySettled(committed_bins[i], auction_bins)

\* an entry of a bin the auction does not have
BadEntry ==
    [bin_id |-> Len(auction.bins), payment_token_committed |-> 1,
     sale_token_claimed |-> 0, payment_token_refunded |-> 0]

SoldOf(bin) ==
    Min(bin.payment_token_raised \div bin.sale_token_price, bin.sale_token_cap)

RECURSIVE SumPaymentDue(_)
SumPaymentDue(bins) ==
    IF bins = <<>> THEN 0
    ELSE SoldOf(Head(bins)) * Head(bins).sale_token_price + SumPaymentDue(Tail(bins))

RECURSIVE SumUnsold(_)
SumUnsold(bins) ==
    IF bins = <<>> THEN 0
    ELSE (Head(bins).sale_token_cap - SoldOf(Head(bins))) + SumUnsold(Tail(bins))

\* C23: withdraw_funds succeeds only strictly after commit_end_time, for the
\* auction authority and with the one-shot flag unset; the authority's call at or
\* before commit_end_time, not paused, fails with InCommitmentPeriod; a step that
\* sets the flag takes exactly the sum over the bins of payment_due out of the
\* payment vault and the sum over the bins of unsold out of the sale vault, both
\* computed from the bins as they are, and changes nothing else of the auction and
\* no ledger record
C23_WithdrawFunds ==
    /\ [](auction.initialized =>
            \A caller \in AdminCallers :
                LET e == withdraw_funds_err(caller)
                IN  /\ (e = "Ok") => /\ now > auction.commit_end_time
                                     /\ caller = auction.authority
                                     /\ ~funds_withdrawn
                    /\ (/\ caller = auction.authority
                        /\ ~HasBit(auction.paused_operations, PAUSE_AUCTION_WITHDRAW_FUNDS)
                        /\ now <= auction.commit_end_time) => e = "InCommitmentPeriod")
    /\ [][(auction.initialized
           /\ auction'.unsold_sale_tokens_and_effective_payment_tokens_withdrawn
                # funds_withdrawn) =>
            /\ now > auction.commit_end_time
            /\ ~funds_withdrawn
            /\ vault_payment_token' = vault_payment_token - SumPaymentDue(auction.bins)
            /\ vault_sale_token' = vault_sale_token - SumUnsold(auction.bins)
            /\ auction' = [auction EXCEPT
                  !.unsold_sale_tokens_and_effective_payment_tokens_withdrawn = TRUE]
            /\ committed' = committed]_vars

\* after the commit window the funds of an over-subscribed bin have been
\* withdrawn: the flag is set, a retry fails, and the payment vault still holds
\* what is owed to the users as refunds
C23_Witness ==
    /\ auction.initialized
    /\ funds_withdrawn
    /\ now > auction.commit_end_time
    /\ \E b \in 1..Len(auction.bins) :
          auction.bins[b].payment_token_raised
            > auction.bins[b].sale_token_cap * auction.bins[b].sale_token_price
    /\ vault_payment_token > 0
    /\ withdraw_funds_err(auction.authority) = "DoubleFundsWithdrawal"

(***************************************************************************)
(* C24: withdraw_fees                                                      *)
(***************************************************************************)
\* C24: withdraw_fees succeeds only strictly after commit_end_time; a step that
\* changes total_fees_withdrawn takes exactly total_fees_collected -
\* total_fees_withdrawn out of the sale vault and adds it to total_fees_withdrawn,
\* after which nothing is withdrawable; with nothing withdrawable a call
\* transfers nothing; total_fees_withdrawn <= total_fees_collected in every
\* state (calculate_withdrawable_fees does not fail) and total_fees_withdrawn
\* never decreases
C24_WithdrawFees ==
    /\ [](/\ auction.total_fees_withdrawn <= auction.total_fees_collected
          /\ calculate_withdrawable_fees(auction.total_fees_collected,
                                         auction.total_fees_withdrawn).err = "Ok"
          /\ auction.initialized =>
                \A caller \in AdminCallers :
                    (withdraw_fees_err(caller) = "Ok") => now > auction.commit_end_time)
    /\ [][/\ auction'.total_fees_withdrawn >= auction.total_fees_withdrawn
          /\ (auction'.total_fees_withdrawn # auction.total_fees_withdrawn) =>
                LET fees == auction.total_fees_collected - auction.total_fees_withdrawn
                IN  /\ now > auction.commit_end_time
                    /\ vault_sale_token' = vault_sale_token - fees
                    /\ auction' = [auction EXCEPT !.total_fees_withdrawn = @ + fees]
                    /\ calculate_withdrawable_fees(auction'.total_fees_collected,
                                                   auction'.total_fees_withdrawn).value = 0
                    /\ UNCHANGED <<committed, vault_payment_token>>
          /\ (/\ auction.initialized
              /\ auction.total_fees_collected = auction.total_fees_withdrawn
              /\ vault_sale_token' # vault_sale_token) =>
                \A caller \in AdminCallers : ~withdraw_fees(caller)]_vars

\* the fees collected have been withdrawn: a second call succeeds and has nothing
\* to transfer
C24_Witness ==
    /\ auction.initialized
    /\ auction.total_fees_withdrawn > 0
    /\ auction.total_fees_withdrawn = auction.total_fees_collected
    /\ withdraw_fees_err(auction.authority) = "Ok"
    /\ calculate_withdrawable_fees(auction.total_fees_collected,
                                   auction.total_fees_withdrawn).value = 0

(***************************************************************************)
(* C25: calculate_bin_withdraw_amounts                                     *)
(***************************************************************************)
\* C25: with price > 0, calculate_bin_withdraw_amounts(raised, cap, price)
\* succeeds with sold = min(floor(raised / price), cap) (the largest number of
\* tokens within cap that raised pays for), payment = sold * price and
\* unsold = cap - sold, so sold + unsold = cap, payment <= raised and
\* payment <= cap * price; raised = 0 gives sold 0 and unsold cap, cap = 0 gives
\* all zero
C25_BinWithdrawAmounts ==
    (calc.fn = "calculate_bin_withdraw_amounts" /\ calc.args[3] > 0) =>
        LET raised == calc.args[1]
            cap == calc.args[2]
            price == calc.args[3]
            sold == calc.out.sale_tokens_sold
            payment == calc.out.payment_tokens_to_withdraw
            unsold == calc.out.unsold_sale_tokens
        IN  /\ calc.out.err = "Ok"
            /\ sold = (IF raised \div price <= cap THEN raised \div price ELSE cap)
            /\ sold <= cap /\ sold * price <= raised
            /\ sold < cap => (sold + 1) * price > raised
            /\ payment = sold * price
            /\ unsold = cap - sold
            /\ sold + unsold = cap
            /\ payment <= raised
            /\ payment <= cap * price
            /\ raised = 0 => (sold = 0 /\ unsold = cap /\ payment = 0)
            /\ cap = 0 => (sold = 0 /\ unsold = 0 /\ payment = 0)

\* an over-subscribed bin: 5 raised at price 2 for a cap of 1 sells 1 token for 2
C25_Witness ==
    /\ calc.fn = "calculate_bin_withdraw_amounts"
    /\ calc.args = <<5, 1, 2>>
    /\ calc.out.sale_tokens_sold = 1
    /\ calc.out.payment_tokens_to_withdraw = 2
    /\ calc.out.unsold_sale_tokens = 0

(***************************************************************************)
(* C26: set_price on a bin with commitments                                *)
(***************************************************************************)
\* C26: a set_price call on a bin with payment_token_raised > 0 is rejected, and
\* no step changes the price of such a bin; set_price with new_price = 0 or by a
\* caller who is not the authority is rejected
C26_NoRepriceAfterCommitments ==
    /\ [](auction.initialized =>
            \A c \in SetPriceChoices :
                LET e == set_price_err(c[1], c[2], c[3])
                IN  /\ (c[3] = 0 \/ c[1] # auction.authority) => e # "Ok"
                    /\ (/\ c[2] < Len(auction.bins)
                        /\ auction.bins[c[2] + 1].payment_token_raised > 0) => e # "Ok")
    /\ [][auction.initialized =>
            \A b \in 1..Len(auction.bins) :
                auction.bins[b].payment_token_raised > 0 =>
                    auction'.bins[b].sale_token_price = auction.bins[b].sale_token_price]_vars

LimbBase == 32768

\* 2^64 - 1: four limbs of 15 bits and one of 4
U64_MAX == <<32767, 32767, 32767, 32767, 15>>

RECURSIVE Trim(_)
Trim(x) == IF x # <<>> /\ x[Len(x)] = 0 THEN Trim(SubSeq(x, 1, Len(x) - 1)) ELSE x

\* the u64 of an operand below 2^31
RECURSIVE Big(_)
Big(n) == IF n = 0 THEN <<>> ELSE <<n % LimbBase>> \o Big(n \div LimbBase)

\* -1, 0, 1 as a < b, a = b, a > b
RECURSIVE BigCmpFrom(_, _, _)
BigCmpFrom(a, b, i) ==
    IF i = 0 THEN 0
    ELSE IF a[i] < b[i] THEN -1
    ELSE IF a[i] > b[i] THEN 1
    ELSE BigCmpFrom(a, b, i - 1)

BigCmp(a, b) ==
    IF Len(a) < Len(b) THEN -1
    ELSE IF Len(a) > Len(b) THEN 1
    ELSE BigCmpFrom(a, b, Len(a))

RECURSIVE BigAddCarry(_, _, _)
BigAddCarry(a, b, carry) ==
    IF a = <<>> /\ b = <<>> THEN (IF carry = 0 THEN <<>> ELSE <<carry>>)
    ELSE LET x == IF a = <<>> THEN 0 ELSE Head(a)
             y == IF b = <<>> THEN 0 ELSE Head(b)
             sum == x + y + carry
         IN  <<sum % LimbBase>> \o
             BigAddCarry(IF a = <<>> THEN a ELSE Tail(a), IF b = <<>> THEN b ELSE Tail(b),
                         sum \div LimbBase)

BigAdd(a, b) == BigAddCarry(a, b, 0)

\* a - b for a >= b
RECURSIVE BigSubBorrow(_, _, _)
BigSubBorrow(a, b, borrow) ==
    IF a = <<>> THEN <<>>
    ELSE LET y == (IF b = <<>> THEN 0 ELSE Head(b)) + borrow
             low == Head(a) < y
         IN  <<(IF low THEN Head(a) + LimbBase - y ELSE Head(a) - y)>> \o
             BigSubBorrow(Tail(a), IF b = <<>> THEN b ELSE Tail(b), IF low THEN 1 ELSE 0)

BigSub(a, b) == Trim(BigSubBorrow(a, b, 0))

\* a * m for one limb m
RECURSIVE BigMulLimbCarry(_, _, _)
BigMulLimbCarry(a, m, carry) ==
    IF a = <<>> THEN (IF carry = 0 THEN <<>> ELSE <<carry>>)
    ELSE LET product == Head(a) * m + carry
         IN  <<product % LimbBase>> \o BigMulLimbCarry(Tail(a), m, product \div LimbBase)

BigMulLimb(a, m) == IF m = 0 THEN <<>> ELSE BigMulLimbCarry(a, m, 0)

\* a * b, limb by limb
RECURSIVE BigMul(_, _)
BigMul(a, b) ==
    IF a = <<>> \/ b = <<>> THEN <<>>
    ELSE BigAdd(BigMulLimb(a, Head(b)), Trim(<<0>> \o BigMul(a, Tail(b))))

\* the largest limb q with b * q <= rem, for rem < b * LimbBase, five bits at a time
RECURSIVE BigDigit(_, _, _, _)
BigDigit(rem, b, acc, weight) ==
    LET fits == {d \in 0..31 : BigCmp(BigMulLimb(b, acc + d * weight), rem) <= 0}
        d == CHOOSE x \in fits : \A y \in fits : y <= x
    IN  IF weight = 1 THEN acc + d ELSE BigDigit(rem, b, acc + d * weight, weight \div 32)

\* <<floor(a / b), a mod b>> for b > 0, by long division
RECURSIVE BigDivMod(_, _)
BigDivMod(a, b) ==
    IF a = <<>> THEN <<<<>>, <<>>>>
    ELSE LET upper == BigDivMod(Tail(a), b)
             rem   == Trim(<<Head(a)>> \o upper[2])
             digit == BigDigit(rem, b, 0, 1024)
         IN  <<Trim(<<digit>> \o upper[1]), BigSub(rem, BigMulLimb(b, digit))>>

\* a.checked_mul(b).ok_or(MathOverflow)?.checked_div(d).ok_or(DivisionByZero)?
checked_mul_div(a, b, d) ==
    LET product == BigMul(a, b)
    IN  IF BigCmp(product, U64_MAX) > 0 THEN [err |-> "MathOverflow", value |-> <<>>]
        ELSE IF d = <<>> THEN [err |-> "DivisionByZero", value |-> <<>>]
        ELSE [err |-> "Ok", value |-> BigDivMod(product, d)[1]]

\* AllocationRatio::calculate on u64
calculate_u64(target_amount, raised_amount) ==
    IF raised_amount = <<>> THEN [err |-> "DivisionByZero", ratio |-> <<>>]
    ELSE IF BigCmp(raised_amount, target_amount) > 0
         THEN LET q == checked_mul_div(target_amount, Big(PRECISION_FACTOR), raised_amount)
              IN  [err |-> q.err, ratio |-> q.value]
         ELSE [err |-> "Ok", ratio |-> Big(PRECISION_FACTOR)]

\* an apply_to_commitment that rounds the effective payment up
apply_to_commitment_u64_rounded_up(ratio, payment_token_committed) ==
    LET q == checked_mul_div(payment_token_committed, ratio, Big(PRECISION_FACTOR))
        rest == BigDivMod(BigMul(payment_token_committed, ratio), Big(PRECISION_FACTOR))[2]
        up == IF rest = <<>> THEN q.value ELSE BigAdd(q.value, <<1>>)
    IN  IF q.err # "Ok" THEN [err |-> q.err, allocated |-> <<>>, refund |-> <<>>]
        ELSE [err |-> "Ok", allocated |-> up, refund |-> BigSub(payment_token_committed, up)]

\* AllocationRatio::apply_to_commitment on u64
apply_to_commitment_u64(ratio, payment_token_committed) ==
    LET q == checked_mul_div(payment_token_committed, ratio, Big(PRECISION_FACTOR))
    IN  IF q.err # "Ok" THEN [err |-> q.err, allocated |-> <<>>, refund |-> <<>>]
        ELSE IF BigCmp(q.value, payment_token_committed) > 0
        THEN [err |-> "MathUnderflow", allocated |-> <<>>, refund |-> <<>>]
        ELSE [err |-> "Ok", allocated |-> q.value,
              refund |-> BigSub(payment_token_committed, q.value)]

NoAmounts_u64(e) ==
    [err |-> e, sale_tokens |-> <<>>, refund_payment_tokens |-> <<>>,
     effective_payment_tokens |-> <<>>, allocation_ratio |-> <<>>]

\* calculate_claimable_amounts on u64
calculate_claimable_amounts_u64(user_committed, bin_target, bin_raised, sale_token_price) ==
    LET r == calculate_u64(bin_target, bin_raised)
    IN  IF r.err # "Ok" THEN NoAmounts_u64(r.err)
        ELSE LET a == apply_to_commitment_u64(r.ratio, user_committed)
             IN  IF a.err # "Ok" THEN NoAmounts_u64(a.err)
                 ELSE IF sale_token_price = <<>> THEN NoAmounts_u64("DivisionByZero")
                 ELSE [err |-> "Ok",
                       sale_tokens |-> BigDivMod(a.allocated, sale_token_price)[1],
                       refund_payment_tokens |-> a.refund,
                       effective_payment_tokens |-> a.allocated,
                       allocation_ratio |-> r.ratio]

\* the u64 operands of the full-width specification: the small ones, the largest
\* one whose product with PRECISION_FACTOR is a u64, the one after it, and 2^64 - 1
MaxWide == 3
MulLimit == BigDivMod(U64_MAX, Big(PRECISION_FACTOR))[1]
WideInputs ==
    {Big(n) : n \in 0..MaxWide} \cup {MulLimit, BigAdd(MulLimit, <<1>>), U64_MAX}
WideRatios == {Big(0), Big(1), Big(666666666), Big(PRECISION_FACTOR)}
WidePrices == {Big(n) : n \in 0..2}

CalculateU64 ==
    /\ calc.fn = "idle"
    /\ \E target_amount \in WideInputs, raised_amount \in WideInputs :
          calc' = [fn |-> "calculate_u64", args |-> <<target_amount, raised_amount>>,
                   out |-> calculate_u64(target_amount, raised_amount)]
    /\ UNCHANGED ledger

ApplyToCommitmentU64 ==
    /\ calc.fn = "idle"
    /\ \E ratio \in WideRatios, payment_token_committed \in WideInputs :
          calc' = [fn |-> "apply_to_commitment_u64",
                   args |-> <<ratio, payment_token_committed>>,
                   out |-> apply_to_commitment_u64(ratio, payment_token_committed)]
    /\ UNCHANGED ledger

CalculateClaimableAmountsU64 ==
    /\ calc.fn = "idle"
    /\ \E user_committed \in WideInputs, bin_target \in WideInputs,
          bin_raised \in WideInputs, sale_token_price \in WidePrices :
          calc' = [fn |-> "calculate_claimable_amounts_u64",
                   args |-> <<user_committed, bin_target, bin_raised, sale_token_price>>,
                   out |-> calculate_claimable_amounts_u64(
                               user_committed, bin_target, bin_raised, sale_token_price)]
    /\ UNCHANGED ledger

\* the entries of one bin: up to MaxHolders commitments, the bin's capacity and
\* price; the bin has raised the sum of the commitments
MaxHolders == 3
ShareCommits == {Big(n) : n \in 0..MaxWide} \cup {Big(1000), Big(2000), MulLimit}
ShareCaps == {Big(1), Big(2), Big(200)}
SharePrices == {Big(1), Big(2), Big(10)}
\* the order of the entries does not matter: the commitments in ascending order
ShareHolders ==
    {h \in UNION {[1..n -> ShareCommits] : n \in 1..MaxHolders} :
        \A i \in 1..(Len(h) - 1) : BigCmp(h[i], h[i + 1]) <= 0}

RECURSIVE BigSum(_)
BigSum(seq) == IF seq = <<>> THEN <<>> ELSE BigAdd(Head(seq), BigSum(Tail(seq)))

BigMin(a, b) == IF BigCmp(a, b) <= 0 THEN a ELSE b

\* the value of a sequence of at most two limbs
BigValue(x) ==
    IF x = <<>> THEN 0 ELSE IF Len(x) = 1 THEN x[1] ELSE x[1] + LimbBase * x[2]

\* claim's entitlement computation for every entry of a bin
ClaimableAmountsOfBinU64 ==
    /\ calc.fn = "idle"
    /\ \E commitments \in ShareHolders, sale_token_cap \in ShareCaps,
          sale_token_price \in SharePrices :
          LET bin_raised == BigSum(commitments)
              bin_target == BigMul(sale_token_cap, sale_token_price)
          IN  /\ BigCmp(bin_raised, U64_MAX) <= 0
              /\ BigCmp(bin_target, U64_MAX) <= 0
              /\ calc' = [fn |-> "claimable_amounts_of_bin_u64",
                          args |-> <<commitments, sale_token_cap, sale_token_price>>,
                          bin_raised |-> bin_raised,
                          bin_target |-> bin_target,
                          out |-> [i \in 1..Len(commitments) |->
                                     calculate_claimable_amounts_u64(
                                         commitments[i], bin_target, bin_raised,
                                         sale_token_price)]]
    /\ UNCHANGED ledger

\* a.checked_add(b).ok_or(MathOverflow)
checked_add_u64(a, b) ==
    LET sum == BigAdd(a, b)
    IN  IF BigCmp(sum, U64_MAX) > 0 THEN [err |-> "MathOverflow", value |-> <<>>]
        ELSE [err |-> "Ok", value |-> sum]

NoWithdrawAmounts_u64(e) ==
    [err |-> e, payment_tokens_to_withdraw |-> <<>>, unsold_sale_tokens |-> <<>>,
     sale_tokens_sold |-> <<>>]

\* calculate_bin_withdraw_amounts on u64
calculate_bin_withdraw_amounts_u64(bin_payment_raised, bin_sale_token_cap, bin_sale_token_price) ==
    IF bin_sale_token_price = <<>> THEN NoWithdrawAmounts_u64("DivisionByZero")
    ELSE LET total_sale_tokens_demanded == BigDivMod(bin_payment_raised, bin_sale_token_price)[1]
             sale_tokens_sold == BigMin(total_sale_tokens_demanded, bin_sale_token_cap)
             payment_amount == BigMul(sale_tokens_sold, bin_sale_token_price)
         IN  IF BigCmp(payment_amount, U64_MAX) > 0 THEN NoWithdrawAmounts_u64("MathOverflow")
             ELSE IF BigCmp(sale_tokens_sold, bin_sale_token_cap) > 0
             THEN NoWithdrawAmounts_u64("MathUnderflow")
             ELSE [err |-> "Ok",
                   payment_tokens_to_withdraw |-> payment_amount,
                   unsold_sale_tokens |-> BigSub(bin_sale_token_cap, sale_tokens_sold),
                   sale_tokens_sold |-> sale_tokens_sold]

NoTotal_u64(e) == [err |-> e, total_payment_tokens |-> <<>>, total_unsold_sale_tokens |-> <<>>]

\* a calculate_total_withdraw_amounts whose totals stop at 2^64 - 1
RECURSIVE calculate_total_withdraw_amounts_u64_saturating(_)
calculate_total_withdraw_amounts_u64_saturating(bins) ==
    IF bins = <<>>
    THEN [err |-> "Ok", total_payment_tokens |-> <<>>, total_unsold_sale_tokens |-> <<>>]
    ELSE LET n == Len(bins)
             rest == calculate_total_withdraw_amounts_u64_saturating(SubSeq(bins, 1, n - 1))
             b == calculate_bin_withdraw_amounts_u64(bins[n].payment_token_raised,
                      bins[n].sale_token_cap, bins[n].sale_token_price)
         IN  IF rest.err # "Ok" THEN rest
             ELSE IF b.err # "Ok" THEN NoTotal_u64(b.err)
             ELSE [err |-> "Ok",
                   total_payment_tokens |->
                       BigMin(BigAdd(rest.total_payment_tokens, b.payment_tokens_to_withdraw),
                              U64_MAX),
                   total_unsold_sale_tokens |->
                       BigMin(BigAdd(rest.total_unsold_sale_tokens, b.unsold_sale_tokens),
                              U64_MAX)]

\* calculate_total_withdraw_amounts on u64: the bins in order, the first error ends it
RECURSIVE calculate_total_withdraw_amounts_u64(_)
calculate_total_withdraw_amounts_u64(bins) ==
    IF bins = <<>>
    THEN [err |-> "Ok", total_payment_tokens |-> <<>>, total_unsold_sale_tokens |-> <<>>]
    ELSE LET n == Len(bins)
             rest == calculate_total_withdraw_amounts_u64(SubSeq(bins, 1, n - 1))
             b == calculate_bin_withdraw_amounts_u64(bins[n].payment_token_raised,
                      bins[n].sale_token_cap, bins[n].sale_token_price)
             payment == checked_add_u64(rest.total_payment_tokens, b.payment_tokens_to_withdraw)
             unsold == checked_add_u64(rest.total_unsold_sale_tokens, b.unsold_sale_tokens)
         IN  IF rest.err # "Ok" THEN rest
             ELSE IF b.err # "Ok" THEN NoTotal_u64(b.err)
             ELSE IF payment.err # "Ok" THEN NoTotal_u64(payment.err)
             ELSE IF unsold.err # "Ok" THEN NoTotal_u64(unsold.err)
             ELSE [err |-> "Ok", total_payment_tokens |-> payment.value,
                   total_unsold_sale_tokens |-> unsold.value]

\* the bins of the full-width specification
MaxWideBins == 3
WideBins ==
    [sale_token_price : {Big(0), Big(1), Big(2)},
     sale_token_cap : {Big(2), U64_MAX},
     payment_token_raised : {Big(3), U64_MAX}]
WideBinLists == UNION {[1..n -> WideBins] : n \in 0..MaxWideBins}

CalculateTotalWithdrawAmountsU64 ==
    /\ calc.fn = "idle"
    /\ \E bins \in WideBinLists :
          calc' = [fn |-> "calculate_total_withdraw_amounts_u64", args |-> <<bins>>,
                   out |-> calculate_total_withdraw_amounts_u64(bins)]
    /\ UNCHANGED ledger

NextWide ==
    \/ CalculateU64
    \/ ApplyToCommitmentU64
    \/ CalculateClaimableAmountsU64
    \/ ClaimableAmountsOfBinU64
    \/ CalculateTotalWithdrawAmountsU64

SpecWide == Init /\ [][NextWide]_vars

\* on operands below 2^31 the full-width functions are the ones of the ledger
WideAgrees ==
    /\ calc.fn = "calculate_u64" =>
          \A t \in 0..MaxWide, r \in 0..MaxWide :
              (calc.args = <<Big(t), Big(r)>>) =>
                  /\ calc.out.err = calculate(t, r).err
                  /\ calc.out.ratio = Big(calculate(t, r).ratio)
    /\ calc.fn = "calculate_claimable_amounts_u64" =>
          \A c \in 0..MaxWide, t \in 0..MaxWide, r \in 0..MaxWide, pr \in 0..2 :
              (calc.args = <<Big(c), Big(t), Big(r), Big(pr)>>) =>
                  LET n == calculate_claimable_amounts(c, t, r, pr)
                  IN  /\ calc.out.err = n.err
                      /\ calc.out.sale_tokens = Big(n.sale_tokens)
                      /\ calc.out.refund_payment_tokens = Big(n.refund_payment_tokens)
                      /\ calc.out.effective_payment_tokens = Big(n.effective_payment_tokens)

(***************************************************************************)
(* C28: division by zero                                                   *)
(***************************************************************************)
\* C28: AllocationRatio::calculate fails with DivisionByZero whenever raised = 0,
\* whatever the target, and calculate_claimable_amounts fails with DivisionByZero
\* whenever price = 0; neither returns a ratio or an entitlement then
C28_DivisionByZero ==
    /\ (calc.fn = "calculate_u64" /\ calc.args[2] = <<>>) =>
          calc.out = [err |-> "DivisionByZero", ratio |-> <<>>]
    /\ (calc.fn = "calculate_claimable_amounts_u64" /\ calc.args[4] = <<>>) =>
          calc.out = NoAmounts_u64("DivisionByZero")

(***************************************************************************)
(* C29: the entitlement does not depend on how the claims are split         *)
(***************************************************************************)
\* what is left of the entitlement of an entry under the bins
RemainingOf(cb, auction_bins) ==
    LET e == EntitlementOf(cb, auction_bins)
    IN  [sale |-> saturating_sub(e.sale_tokens, cb.sale_token_claimed),
         refund |-> saturating_sub(e.refund_payment_tokens, cb.payment_token_refunded)]

\* C29: the entitlement of an entry is a function of the entry's commitment and
\* the bin's target, raised and price, and a claim changes none of them: a
\* partial claim leaves the entitlement as it was, the amounts claimed so far stay
\* within it, a request for exactly what is left passes the entitlement check and
\* a request for one more fails with InvalidClaimAmount, so that the claims of an
\* entry add up to the single-shot entitlement however they are split
C29_SplitClaims ==
    /\ [](\A user \in Users : \A i \in 1..Len(committed[user].bins) :
            LET cb == committed[user].bins[i]
                e == EntitlementOf(cb, auction.bins)
                left == RemainingOf(cb, auction.bins)
            IN  (/\ auction.initialized
                 /\ now >= auction.claim_start_time
                 /\ ~HasBit(auction.paused_operations, PAUSE_AUCTION_CLAIM)
                 /\ e.err = "Ok") =>
                    /\ (left.sale + left.refund > 0) =>
                          claim_err(user, user, cb.bin_id, left.sale, left.refund)
                            # "InvalidClaimAmount"
                    /\ claim_err(user, user, cb.bin_id, left.sale + 1, left.refund)
                         = "InvalidClaimAmount"
                    /\ claim_err(user, user, cb.bin_id, left.sale, left.refund + 1)
                         = "InvalidClaimAmount")
    /\ [][\A user \in Users : \A i \in 1..Len(committed[user].bins) :
            (/\ Len(committed'[user].bins) = Len(committed[user].bins)
             /\ \/ committed'[user].bins[i].sale_token_claimed
                     # committed[user].bins[i].sale_token_claimed
                \/ committed'[user].bins[i].payment_token_refunded
                     # committed[user].bins[i].payment_token_refunded) =>
                LET cb == committed[user].bins[i]
                    after == committed'[user].bins[i]
                    e == EntitlementOf(cb, auction.bins)
                IN  /\ e.err = "Ok"
                    /\ EntitlementOf(after, auction'.bins) = e
                    /\ (cb.sale_token_claimed <= e.sale_tokens) =>
                          after.sale_token_claimed <= e.sale_tokens
                    /\ (cb.payment_token_refunded <= e.refund_payment_tokens) =>
                          after.payment_token_refunded <= e.refund_payment_tokens]_vars
    /\ [][auction.initialized =>
            \A b \in 1..Len(auction.bins) :
                (auction'.bins[b].sale_token_claimed > auction.bins[b].sale_token_claimed) =>
                    \E user \in Users :
                        \/ committed'[user] = NoCommitted /\ committed[user] # NoCommitted
                        \/ \E i \in 1..Len(committed[user].bins) :
                              /\ committed[user].bins[i].bin_id = b - 1
                              /\ Len(committed'[user].bins) = Len(committed[user].bins)
                              /\ committed'[user].bins[i].sale_token_claimed
                                   - committed[user].bins[i].sale_token_claimed
                                 = auction'.bins[b].sale_token_claimed
                                   - auction.bins[b].sale_token_claimed]_vars

\* in the middle of a split: of an entitlement of 2 sale tokens 1 has been
\* claimed, the other 1 can be claimed and 2 cannot
C29_Witness ==
    \E user \in Users : \E i \in 1..Len(committed[user].bins) :
        LET cb == committed[user].bins[i]
        IN  /\ auction.initialized
            /\ now >= auction.claim_start_time
            /\ EntitlementOf(cb, auction.bins).err = "Ok"
            /\ EntitlementOf(cb, auction.bins).sale_tokens = 2
            /\ cb.sale_token_claimed = 1
            /\ claim_err(user, user, cb.bin_id, 1, 0) = "Ok"
            /\ claim_err(user, user, cb.bin_id, 2, 0) = "InvalidClaimAmount"

(***************************************************************************)
(* C30: truncation in the operator's favour                                *)
(***************************************************************************)
EffectivePayments(out) == [i \in 1..Len(out) |-> out[i].effective_payment_tokens]
SaleTokens(out) == [i \in 1..Len(out) |-> out[i].sale_tokens]

\* C30: for the entries of a bin with price > 0, raised > 0 the sum of the
\* commitments and target = capacity * price, every entry's sale tokens are
\* floor(effective payment / price), the effective payments add up to at most
\* min(raised, target), and the sale tokens add up to at most
\* min(floor(raised / price), capacity), which is what
\* calculate_bin_withdraw_amounts counts as sold; 1000 and 2000 committed at
\* price 10 and capacity 200 are entitled to 66 and 133 sale tokens
C30_TruncationFavoursOperator ==
    (calc.fn = "claimable_amounts_of_bin_u64") =>
        LET commitments == calc.args[1]
            sale_token_cap == calc.args[2]
            sale_token_price == calc.args[3]
            sold == BigMin(BigDivMod(calc.bin_raised, sale_token_price)[1], sale_token_cap)
        IN  /\ (/\ calc.bin_raised # <<>>
                /\ \A i \in 1..Len(commitments) : calc.out[i].err = "Ok") =>
                  /\ \A i \in 1..Len(commitments) :
                        LET e == calc.out[i]
                            spent == BigMul(e.sale_tokens, sale_token_price)
                        IN  /\ BigCmp(spent, e.effective_payment_tokens) <= 0
                            /\ BigCmp(BigAdd(spent, sale_token_price),
                                      e.effective_payment_tokens) > 0
                  /\ BigCmp(BigSum(EffectivePayments(calc.out)),
                            BigMin(calc.bin_raised, calc.bin_target)) <= 0
                  /\ BigCmp(BigSum(SaleTokens(calc.out)), sold) <= 0
            /\ (Len(calc.bin_raised) <= 1) =>
                  LET w == calculate_bin_withdraw_amounts(
                               BigValue(calc.bin_raised), BigValue(sale_token_cap),
                               BigValue(sale_token_price))
                  IN  w.err = "Ok" /\ Big(w.sale_tokens_sold) = sold
            /\ (commitments = <<Big(1000), Big(2000)>> /\ sale_token_cap = Big(200)
                  /\ sale_token_price = Big(10)) =>
                  /\ calc.out[1].err = "Ok" /\ calc.out[2].err = "Ok"
                  /\ calc.out[1].sale_tokens = Big(66)
                  /\ calc.out[2].sale_tokens = Big(133)

\* three commitments of 1 to a bin of capacity 2 at price 1: every effective
\* payment truncates to 0 and the entries are entitled to nothing of the 2 sold
C30_Witness ==
    /\ calc.fn = "claimable_amounts_of_bin_u64"
    /\ calc.args = <<<<Big(1), Big(1), Big(1)>>, Big(2), Big(1)>>
    /\ \A i \in 1..3 : calc.out[i].err = "Ok" /\ calc.out[i].sale_tokens = <<>>
    /\ BigMin(calc.bin_raised, calc.bin_target) = Big(2)

(***************************************************************************)
(* C31: the full ratio applied to every u64 amount                         *)
(***************************************************************************)
\* C31: apply_to_commitment with the full ratio PRECISION_FACTOR returns, for
\* every u64 amount, the amount as effective payment and a refund of 0, and no
\* arithmetic error
C31_FullRatioFullyEffective ==
    (calc.fn = "apply_to_commitment_u64" /\ calc.args[1] = Big(PRECISION_FACTOR)) =>
        /\ calc.out.err = "Ok"
        /\ calc.out.allocated = calc.args[2]
        /\ calc.out.refund = <<>>

(***************************************************************************)
(* C32: the product target * PRECISION_FACTOR                              *)
(***************************************************************************)
\* C32: for u64 target and raised with raised > target, calculate returns
\* floor(target * PRECISION_FACTOR / raised); the product of two u64 values
\* fits the wide intermediate, so the call does not fail with MathOverflow
C32_WideProduct ==
    (calc.fn = "calculate_u64" /\ BigCmp(calc.args[2], calc.args[1]) > 0) =>
        /\ calc.out.err = "Ok"
        /\ calc.out.ratio =
              BigDivMod(BigMul(calc.args[1], Big(PRECISION_FACTOR)), calc.args[2])[1]
        /\ BigCmp(calc.out.ratio, Big(PRECISION_FACTOR)) < 0

(***************************************************************************)
(* C33: the totals of withdraw_funds                                       *)
(***************************************************************************)
BinWithdrawAmounts(bins) ==
    [i \in 1..Len(bins) |->
        calculate_bin_withdraw_amounts_u64(bins[i].payment_token_raised,
            bins[i].sale_token_cap, bins[i].sale_token_price)]
PaymentsToWithdraw(amounts) == [i \in 1..Len(amounts) |-> amounts[i].payment_tokens_to_withdraw]
UnsoldSaleTokens(amounts) == [i \in 1..Len(amounts) |-> amounts[i].unsold_sale_tokens]
Reversed(seq) == [i \in 1..Len(seq) |-> seq[Len(seq) + 1 - i]]

\* C33: calculate_total_withdraw_amounts returns the sums of the bins' payment
\* and unsold amounts, the same in either order of the bins; it fails with
\* MathOverflow when a sum is above 2^64 - 1; and when a bin's calculation fails
\* it returns an error and no total: the first failing bin's error, unless a
\* running total overflowed before that bin
C33_TotalWithdrawAmounts ==
    (calc.fn = "calculate_total_withdraw_amounts_u64") =>
        LET bins == calc.args[1]
            amounts == BinWithdrawAmounts(bins)
            failing == {i \in 1..Len(bins) : amounts[i].err # "Ok"}
            payment == BigSum(PaymentsToWithdraw(amounts))
            unsold == BigSum(UnsoldSaleTokens(amounts))
        IN  /\ (failing = {} /\ BigCmp(payment, U64_MAX) <= 0 /\ BigCmp(unsold, U64_MAX) <= 0) =>
                  /\ calc.out.err = "Ok"
                  /\ calc.out.total_payment_tokens = payment
                  /\ calc.out.total_unsold_sale_tokens = unsold
                  /\ payment = BigSum(PaymentsToWithdraw(Reversed(amounts)))
                  /\ unsold = BigSum(UnsoldSaleTokens(Reversed(amounts)))
            /\ (failing = {} /\ (BigCmp(payment, U64_MAX) > 0 \/ BigCmp(unsold, U64_MAX) > 0)) =>
                  calc.out = NoTotal_u64("MathOverflow")
            /\ (failing # {}) =>
                  LET first == CHOOSE i \in failing : \A j \in failing : i <= j
                      before == SubSeq(amounts, 1, first - 1)
                  IN  /\ calc.out.err # "Ok"
                      /\ calc.out.total_payment_tokens = <<>>
                      /\ calc.out.total_unsold_sale_tokens = <<>>
                      /\ calc.out.err \in {amounts[first].err, "MathOverflow"}
                      /\ (/\ BigCmp(BigSum(PaymentsToWithdraw(before)), U64_MAX) <= 0
                          /\ BigCmp(BigSum(UnsoldSaleTokens(before)), U64_MAX) <= 0) =>
                            calc.out.err = amounts[first].err

\* two bins that each sell for 2^64 - 1, then a bin with price 0: the total of
\* the first two does not fit, and the third bin's DivisionByZero is not reached
C33_Witness ==
    /\ calc.fn = "calculate_total_withdraw_amounts_u64"
    /\ Len(calc.args[1]) = 3
    /\ \A i \in 1..2 :
          BinWithdrawAmounts(calc.args[1])[i].err = "Ok"
          /\ BinWithdrawAmounts(calc.args[1])[i].payment_tokens_to_withdraw = U64_MAX
    /\ BinWithdrawAmounts(calc.args[1])[3].err = "DivisionByZero"
    /\ calc.out.err = "MathOverflow"

(***************************************************************************)
(* C34: what init_auction accepts and what it creates                      *)
(***************************************************************************)
\* C34: a call of init_auction creates the auction only if the caller is the
\* launchpad admin, now <= commit_start_time <= commit_end_time <=
\* claim_start_time, there are 1 to 10 bins, each with price > 0 and capacity > 0,
\* and a configured claim fee rate is > 0; the auction it creates has the bins of
\* the call with nothing raised and nothing claimed, no participants, no fees
\* collected or withdrawn, the funds-withdrawn flag unset and an empty pause mask
C34_InitAuction ==
    [][(~auction.initialized /\ auction'.initialized) =>
         \A p \in InitChoices :
            init_auction(p.caller, p.times, p.bins, p.custody, p.extensions) =>
               /\ p.caller = LAUNCHPAD_ADMIN
               /\ now <= p.times[1] /\ p.times[1] <= p.times[2] /\ p.times[2] <= p.times[3]
               /\ Len(p.bins) >= 1 /\ Len(p.bins) <= 10
               /\ \A i \in 1..Len(p.bins) :
                     p.bins[i].sale_token_price > 0 /\ p.bins[i].sale_token_cap > 0
               /\ IsSome(p.extensions.claim_fee_rate) =>
                     Unwrap(p.extensions.claim_fee_rate) > 0
               /\ Len(auction'.bins) = Len(p.bins)
               /\ \A i \in 1..Len(p.bins) :
                     /\ auction'.bins[i].sale_token_price = p.bins[i].sale_token_price
                     /\ auction'.bins[i].sale_token_cap = p.bins[i].sale_token_cap
                     /\ auction'.bins[i].payment_token_raised = 0
                     /\ auction'.bins[i].sale_token_claimed = 0
               /\ auction'.total_participants = 0
               /\ auction'.total_fees_collected = 0
               /\ auction'.total_fees_withdrawn = 0
               /\ ~auction'.unsold_sale_tokens_and_effective_payment_tokens_withdrawn
               /\ auction'.paused_operations = 0
               /\ auction'.commit_start_time = p.times[1]
               /\ auction'.commit_end_time = p.times[2]
               /\ auction'.claim_start_time = p.times[3]]_vars

\* the auction of two bins as init_auction has just created it
C34_Witness ==
    /\ auction.initialized
    /\ Len(auction.bins) = 2
    /\ \A i \in 1..2 : auction.bins[i].payment_token_raised = 0
                        /\ auction.bins[i].sale_token_claimed = 0
    /\ auction.total_participants = 0
    /\ auction.paused_operations = 0
    /\ now <= auction.commit_start_time
    /\ vault_sale_token = SumCaps(TwoBins)

(***************************************************************************)
(* C35: the sale vault                                                     *)
(***************************************************************************)
RECURSIVE SumSaleClaimed(_)
SumSaleClaimed(bins) ==
    IF bins = <<>> THEN 0 ELSE Head(bins).sale_token_claimed + SumSaleClaimed(Tail(bins))

\* the sale tokens that have left the sale vault since init_auction filled it
SaleTokensOut == SumCaps(auction.bins) - vault_sale_token

C36_ClaimOfRemainderAccepted ==
    \A user \in Users : \A i \in 1..Len(committed[user].bins) :
        LET cb == committed[user].bins[i]
            left == RemainingOf(cb, auction.bins)
        IN  (/\ auction.initialized
             /\ now >= auction.claim_start_time
             /\ ~HasBit(auction.paused_operations, PAUSE_AUCTION_CLAIM)
             /\ EntitlementOf(cb, auction.bins).err = "Ok"
             /\ left.sale + left.refund > 0) =>
                claim_err(user, user, cb.bin_id, left.sale, left.refund)
                    \in {"Ok", "InsufficientFunds"}

(***************************************************************************)
(* C37: commitments and claims                                             *)
(***************************************************************************)
\* sale tokens have been claimed from some bin: a claim has succeeded
SomeClaimSucceeded ==
    auction.initialized /\ \E b \in 1..Len(auction.bins) : auction.bins[b].sale_token_claimed > 0

\* C37: once a claim has succeeded no commit and no decrease_commit succeeds:
\* no bin's payment_token_raised changes any more
C37_RaisedFixedAfterFirstClaim ==
    [][SomeClaimSucceeded =>
         \A b \in 1..Len(auction.bins) :
            auction'.bins[b].payment_token_raised = auction.bins[b].payment_token_raised]_vars

(***************************************************************************)
(* C38: commitments and withdraw_funds                                     *)
(***************************************************************************)
\* C38: once withdraw_funds has succeeded the clock is past commit_end_time, so
\* every commit and every decrease_commit is refused, no bin's
\* payment_token_raised changes any more, and the amounts
\* calculate_total_withdraw_amounts gives for the bins stay what they were as
\* long as no price is changed
C38_RaisedFixedAfterWithdrawFunds ==
    /\ [](funds_withdrawn =>
            /\ now > auction.commit_end_time
            /\ \A user \in Users, shape \in CommitShapes :
                  \A a \in AuthChoices(user, shape[1], shape[2]) :
                     commit_err(user, shape[1], shape[2], a[1], a[2], a[3]) # "Ok"
            /\ \A who \in AccountChoices, shape \in DecreaseShapes :
                  decrease_commit_err(who[1], who[2], shape[1], shape[2]) # "Ok")
    /\ [][funds_withdrawn =>
            /\ funds_withdrawn'
            /\ now' >= now
            /\ \A b \in 1..Len(auction.bins) :
                  auction'.bins[b].payment_token_raised = auction.bins[b].payment_token_raised
            /\ (\A b \in 1..Len(auction.bins) :
                  auction'.bins[b].sale_token_price = auction.bins[b].sale_token_price) =>
                  calculate_total_withdraw_amounts(auction'.bins)
                    = calculate_total_withdraw_amounts(auction.bins)]_vars

\* after withdraw_funds a commit to a bin that has raised something is refused
\* as out of the commitment period
C38_Witness ==
    /\ funds_withdrawn
    /\ auction.bins[1].payment_token_raised > 0
    /\ \E a \in AuthChoices("u1", 0, 1) :
          commit_err("u1", 0, 1, a[1], a[2], a[3]) = "OutOfCommitmentPeriod"

(***************************************************************************)
(* C39: no pause locks emergency_control                                   *)
(***************************************************************************)
AllPaused ==
    PAUSE_AUCTION_COMMIT + PAUSE_AUCTION_CLAIM + PAUSE_AUCTION_WITHDRAW_FEES
    + PAUSE_AUCTION_WITHDRAW_FUNDS + PAUSE_AUCTION_UPDATION

\* C39: whatever the pause mask is, all five bits set included, a call of
\* emergency_control by the authority is accepted and can set every mask, the
\* empty one included: no pause keeps the authority from resuming an operation
C39_EmergencyControlNotGated ==
    auction.initialized =>
        /\ emergency_control_err(auction.authority) = "Ok"
        /\ \A params \in PauseChoices :
              ENABLED (/\ emergency_control(auction.authority, params)
                       /\ auction'.paused_operations = new_paused_operations(params))
        /\ ENABLED (/\ EmergencyControl(PauseChoices)
                    /\ auction'.paused_operations = 0)

\* everything is paused
C39_Witness ==
    /\ auction.initialized
    /\ auction.paused_operations = AllPaused
    /\ \A op \in {PAUSE_AUCTION_COMMIT, PAUSE_AUCTION_CLAIM, PAUSE_AUCTION_WITHDRAW_FEES,
                  PAUSE_AUCTION_WITHDRAW_FUNDS, PAUSE_AUCTION_UPDATION} :
          check_emergency_state(auction, op) # "Ok"

(***************************************************************************)
(* C40: prices and capacities stay positive                                *)
(***************************************************************************)
\* C40: in every state every bin of the auction has sale_token_price > 0 and
\* sale_token_cap > 0, so that the division by the price fails neither in
\* calculate_bin_withdraw_amounts, for any bin, nor in
\* calculate_claimable_amounts, for any entry: withdraw_funds never fails with
\* DivisionByZero, and the entitlement of an entry fails with DivisionByZero only
\* in AllocationRatio::calculate, when the bin has raised nothing
C40_PricesAndCapsPositive ==
    auction.initialized =>
        /\ \A b \in 1..Len(auction.bins) :
              /\ auction.bins[b].sale_token_price > 0
              /\ auction.bins[b].sale_token_cap > 0
              /\ calculate_bin_withdraw_amounts(auction.bins[b].payment_token_raised,
                     auction.bins[b].sale_token_cap, auction.bins[b].sale_token_price).err = "Ok"
        /\ calculate_total_withdraw_amounts(auction.bins).err = "Ok"
        /\ \A caller \in AdminCallers : withdraw_funds_err(caller) # "DivisionByZero"
        /\ \A user \in Users : \A i \in 1..Len(committed[user].bins) :
              LET cb == committed[user].bins[i]
                  bin == auction.bins[cb.bin_id + 1]
              IN  /\ (bin.payment_token_raised > 0) =>
                        EntitlementOf(cb, auction.bins).err = "Ok"
                  /\ (bin.payment_token_raised = 0) =>
                        calculate(bin.sale_token_cap * bin.sale_token_price,
                                  bin.payment_token_raised).err = "DivisionByZero"

\* set_price has changed the price of a bin that has raised something, and a
\* price of 0 is refused
C40_Witness ==
    /\ auction.initialized
    /\ auction.bins[1].sale_token_price = 2
    /\ auction.bins[1].payment_token_raised > 0
    /\ set_price_err(auction.authority, 0, 0) = "InvalidAuctionBinsPriceOrCap"
    /\ \E user \in Users : \E i \in 1..Len(committed[user].bins) :
          committed[user].bins[i].bin_id = 0

====
